------------------------------ MODULE ServerGroup ------------------------------
(***************************************************************************)
(* One call of execute_server_group_batches: the batches of a request are  *)
(* spread over clients of several TDX servers, each with a thread pool of  *)
(* its own, and a failed batch is retried on the next server.              *)
(*                                                                         *)
(* A host is its position in options.hosts, a batch its index, and a pool  *)
(* its position among the connected clients.  A batch has at most one      *)
(* future at a time, so the future is part of the batch.  The order in     *)
(* which a pool takes its futures is left open.                            *)
(***************************************************************************)
EXTENDS Integers, FiniteSets

CONSTANT Calls      \* the calls to consider: what was asked for with which options

ASSUME CallsAssumption ==
    Calls \subseteq [batches : Nat, hosts : Nat, connections : Nat \ {0}, retries : Nat]

VARIABLES
    call,           \* the arguments of this call
    phase,          \* where the calling thread is
    outcome,        \* what it is going to return or raise
    candidate,      \* candidate_index
    wave,           \* clients whose connect() has not been collected
    created,        \* created_clients
    connected,      \* connected
    failed,         \* failed_hosts
    future,         \* pool, attempt and state of each batch
    closed          \* clients that were closed

hostVars == <<candidate, wave, created, connected, failed>>
vars == <<call, phase, outcome, hostVars, future, closed>>

Batch == 0 .. call.batches - 1
Host == 0 .. call.hosts - 1

SmallerOf(a, b) == IF a < b THEN a ELSE b

-----------------------------------------------------------------------------
(* plan_server_group: no more servers and connections than there is work. *)
HostCount == SmallerOf(call.batches, call.hosts)

CeilDiv(a, b) == (a + b - 1) \div b

ConnectionsPerServer ==
    IF HostCount = 0 THEN 0
    ELSE SmallerOf(call.connections, CeilDiv(call.batches, HostCount))

\* max_workers of each pool
Workers == SmallerOf(ConnectionsPerServer, call.batches)

PoolCount == Cardinality(connected)

Init ==
    /\ call \in Calls
    /\ phase = IF HostCount = 0 THEN "done" ELSE "connecting"
    /\ outcome = CASE call.batches = 0 -> "result"
                   [] call.batches > 0 /\ call.hosts = 0 -> "error"
                   [] OTHER -> "open"
    /\ candidate = 0
    /\ wave = {} /\ created = {} /\ connected = {} /\ failed = {}
    /\ future = [b \in Batch |-> [pool |-> 0, attempt |-> 0, state |-> "absent"]]
    /\ closed = {}

-----------------------------------------------------------------------------
(* Connecting, wave after wave, until there are enough servers. *)
TakeWave ==
    /\ phase = "connecting"
    /\ wave = {}
    /\ PoolCount < HostCount
    /\ candidate < call.hosts
    /\ candidate' = SmallerOf(candidate + HostCount - PoolCount, call.hosts)
    /\ \E refused \in SUBSET (candidate .. candidate' - 1) :   \* create_client raised
         /\ wave' = (candidate .. candidate' - 1) \ refused
         /\ created' = created \cup wave'
         /\ failed' = failed \cup refused
    /\ UNCHANGED <<call, phase, outcome, connected, future, closed>>

ConnectEnds(h) ==
    /\ phase = "connecting"
    /\ h \in wave
    /\ wave' = wave \ {h}
    /\ \/ connected' = connected \cup {h} /\ UNCHANGED failed
       \/ failed' = failed \cup {h} /\ UNCHANGED connected
    /\ UNCHANGED <<call, phase, outcome, candidate, created, future, closed>>

WavesAreOver == wave = {} /\ (PoolCount >= HostCount \/ candidate >= call.hosts)

NoneConnected ==
    /\ phase = "connecting"
    /\ WavesAreOver
    /\ connected = {}
    /\ phase' = "closing"
    /\ outcome' = "error"
    /\ UNCHANGED <<call, hostVars, future, closed>>

SubmitBatches ==
    /\ phase = "connecting"
    /\ WavesAreOver
    /\ connected # {}
    /\ phase' = "running"
    /\ future' = [b \in Batch |-> [pool |-> b % PoolCount, attempt |-> 0, state |-> "queued"]]
    /\ UNCHANGED <<call, outcome, hostVars, closed>>

-----------------------------------------------------------------------------
(* The threads of the pools.  They go on after an error has been raised. *)
InState(s) == {b \in Batch : future[b].state = s}
BusyIn(p) == {b \in InState("running") : future[b].pool = p}

\* Variant: as many threads as there are batches.
HasThreadForEach(p) == Cardinality(BusyIn(p)) < call.batches

HasThread(p) == Cardinality(BusyIn(p)) < Workers

StartRequest(b) ==
    /\ b \in InState("queued")
    /\ HasThread(future[b].pool)
    /\ future' = [future EXCEPT ![b].state = "running"]
    /\ UNCHANGED <<call, phase, outcome, hostVars, closed>>

EndRequest(b) ==
    /\ b \in InState("running")
    /\ \E s \in {"answered", "failed"} : future' = [future EXCEPT ![b].state = s]
    /\ UNCHANGED <<call, phase, outcome, hostVars, closed>>

-----------------------------------------------------------------------------
(* The calling thread takes one finished future after the other. *)
TakeAnswer(b) ==
    /\ phase = "running"
    /\ b \in InState("answered")
    /\ future' = [future EXCEPT ![b].state = "taken"]
    /\ UNCHANGED <<call, phase, outcome, hostVars, closed>>

\* Variant: the budget is compared one attempt too late.
AttemptsAreUsedUp(b) == future[b].attempt > call.retries \/ PoolCount < 2

MayNotRetry(b) == future[b].attempt >= call.retries \/ PoolCount < 2

\* Variant: the retry goes to the pool of the attempt's number.
PoolOfAttempt(b) == (future[b].attempt + 1) % PoolCount

NextPool(b) == (future[b].pool + future[b].attempt + 1) % PoolCount

Retry(b) ==
    /\ phase = "running"
    /\ b \in InState("failed")
    /\ ~MayNotRetry(b)
    /\ future' = [future EXCEPT ![b] =
                    [pool |-> NextPool(b), attempt |-> @.attempt + 1, state |-> "queued"]]
    /\ UNCHANGED <<call, phase, outcome, hostVars, closed>>

RaiseError(b) ==
    /\ phase = "running"
    /\ b \in InState("failed")
    /\ MayNotRetry(b)
    /\ phase' = "draining"
    /\ outcome' = "error"
    /\ UNCHANGED <<call, hostVars, future, closed>>

NothingPending == InState("taken") = Batch

AllAnswered ==
    /\ phase = "running"
    /\ NothingPending
    /\ phase' = "draining"
    /\ outcome' = "result"
    /\ UNCHANGED <<call, hostVars, future, closed>>

-----------------------------------------------------------------------------
(* Leaving: the pools are shut down, which waits, and then the clients are closed. *)

\* Variant: shutting down waits for the requests under way only.
RunningHaveEnded == InState("running") = {}

PoolsAreIdle == InState("queued") \cup InState("running") = {}

ShutDownPools ==
    /\ phase = "draining"
    /\ PoolsAreIdle
    /\ phase' = "closing"
    /\ UNCHANGED <<call, outcome, hostVars, future, closed>>

\* Variant: only the clients that connected are closed.
ToClose == connected \ closed

StillOpen == created \ closed

CloseClient(h) ==
    /\ phase = "closing"
    /\ h \in StillOpen
    /\ closed' = closed \cup {h}
    /\ UNCHANGED <<call, phase, outcome, hostVars, future>>

Finish ==
    /\ phase = "closing"
    /\ StillOpen = {}
    /\ phase' = "done"
    /\ UNCHANGED <<call, outcome, hostVars, future, closed>>

-----------------------------------------------------------------------------
PoolStep(b) == StartRequest(b) \/ EndRequest(b)
MainStep ==
    \/ TakeWave \/ NoneConnected \/ SubmitBatches
    \/ AllAnswered \/ ShutDownPools \/ Finish
    \/ \E h \in Host : ConnectEnds(h) \/ CloseClient(h)
    \/ \E b \in Batch : TakeAnswer(b) \/ Retry(b) \/ RaiseError(b)

Next == MainStep \/ \E b \in Batch : PoolStep(b)

(***************************************************************************)
(* Threads are scheduled, and every connect and every request ends, with   *)
(* an answer or at its timeout.                                            *)
(***************************************************************************)
Fairness == WF_vars(MainStep) /\ WF_vars(\E b \in Batch : PoolStep(b))

Spec == Init /\ [][Next]_vars
FairSpec == Spec /\ Fairness

-----------------------------------------------------------------------------
Phase == {"connecting", "running", "draining", "closing", "done"}
State == {"absent", "queued", "running", "answered", "failed", "taken"}

\* Every variable keeps its type, hosts are tried once and in order, and no
\* batch has more attempts than the retries allow (_execute_connected_batches).
TypeOK ==
    /\ call \in Calls
    /\ phase \in Phase
    /\ outcome \in {"open", "result", "error"}
    /\ candidate \in 0 .. call.hosts
    /\ wave \subseteq created
    /\ created \subseteq 0 .. candidate - 1
    /\ connected \subseteq created \ wave
    /\ failed = (0 .. candidate - 1) \ (wave \cup connected)
    /\ future \in [Batch -> [pool : Nat, attempt : 0 .. call.retries, state : State]]
    /\ closed \subseteq created

\* The limits of the caller hold whatever fails: no more servers than planned
\* are connected, no server has more requests at once than its client has
\* connections, and a planned server is missing only when no host is left.
WithinLimits ==
    /\ PoolCount <= HostCount
    /\ ConnectionsPerServer <= call.connections
    /\ \A p \in Host : Cardinality(BusyIn(p)) <= ConnectionsPerServer
    /\ phase # "connecting" => PoolCount = HostCount \/ connected \cup failed = Host

\* No client is closed while a request of this call still runs, or waits to
\* run, on it, also when an error has ended the call (ExitStack before finally).
NoUseAfterClose ==
    closed # {} => InState("queued") \cup InState("running") = {}

\* A result has the answers of all batches.  An error means that no server
\* connected, or that a batch failed which had been tried on another server
\* too, unless there was none or no retry was allowed.
OutcomeIsEarned ==
    /\ outcome = "result" => \A b \in Batch : future[b].state = "taken"
    /\ outcome = "error" /\ connected # {} =>
         \E b \in InState("failed") :
            \/ PoolCount = 1
            \/ call.retries = 0
            \/ future[b].attempt = call.retries
               /\ (call.retries = 1 => future[b].pool # b % PoolCount)

\* Every call ends, and leaves no client open that it created.
EndsWithAllClosed == <>(phase = "done" /\ closed = created)
=============================================================================
