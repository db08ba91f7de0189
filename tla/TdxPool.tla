------------------------------- MODULE TdxPool -------------------------------
(***************************************************************************)
(* PooledSocketTransport (_tdx_wire/transport/pool.py): threads queue up,  *)
(* first come first served, for one of the pool's slots and use the        *)
(* SocketTransport of the slot until their request is done.  Closing and   *)
(* reopening the pool starts a new generation of slots.                    *)
(*                                                                         *)
(* The pool's state is guarded by one Condition; a step here is what a     *)
(* thread does between acquiring the lock and releasing it or waiting.  Of *)
(* a SocketTransport the model keeps whether its actor thread is alive:    *)
(* close() stops the actor and the next request starts another.            *)
(***************************************************************************)
EXTENDS Naturals, Sequences

CONSTANTS
    Caller,         \* threads that use the pool
    PoolSize,       \* pool_size
    MaxPending,     \* max_pending_requests
    Nobody          \* null value

ASSUME PoolAssumption ==
    /\ PoolSize \in Nat \ {0}
    /\ MaxPending \in Nat
    /\ MaxPending >= PoolSize
    /\ Nobody \notin Caller

Slot == 0 .. PoolSize - 1

VARIABLES
    closed,         \* _closed
    generation,     \* _generation
    idle,           \* _idle_slots
    waiters,        \* _waiters; a waiter is named by its thread
    made,           \* slots with a transport in _transports
    alive,          \* transports with a running actor thread
    pc,             \* where each thread is
    at,             \* the slot and the generation it holds or connects
    late,           \* threads whose deadline has passed
    shutting        \* transports that a thread in close() has still to close

poolVars == <<closed, generation, idle, waiters, made>>
vars == <<poolVars, alive, pc, at, late, shutting>>

ThreadState ==
    {"idle", "arrived", "asleep", "awake", "leased", "obtained", "executing", "releasing",
     "connecting", "dialling", "closing"}
Waiting == {"asleep", "awake"}
Holding == {"leased", "obtained", "executing", "releasing"}

\* A transport is named by its slot and the generation that made it.
Transport == Slot \X Nat

\* The value of at for a thread that is at no transport.
Nowhere == <<0, 0>>

\* Variant: slots are counted from one.
FreshSlotsFromOne == [i \in 1 .. PoolSize |-> i]

\* deque(range(pool_size))
FreshSlots == [i \in 1 .. PoolSize |-> i - 1]

Init ==
    /\ closed = FALSE
    /\ generation = 0
    /\ idle = FreshSlots
    /\ waiters = <<>>
    /\ made = {}
    /\ alive = {}
    /\ pc = [c \in Caller |-> "idle"]
    /\ at = [c \in Caller |-> Nowhere]
    /\ late = {}
    /\ shutting = [c \in Caller |-> {}]

Move(c, s) == pc' = [pc EXCEPT ![c] = s]

\* notify_all: every sleeping thread will look at the pool again.
NotifyAll(c, s) ==
    pc' = [d \in Caller |-> IF d = c THEN s ELSE IF pc[d] = "asleep" THEN "awake" ELSE pc[d]]

\* The thread's call has returned or raised.
Forget(c) ==
    /\ at' = [at EXCEPT ![c] = Nowhere]
    /\ late' = late \ {c}

-----------------------------------------------------------------------------
\* _reopen_if_closed, the first step of execute and of connect.
ReopenIfClosed(c, s) ==
    /\ pc[c] = "idle"
    /\ \/ /\ ~closed
          /\ Move(c, s)
          /\ UNCHANGED poolVars
       \/ /\ closed
          /\ closed' = FALSE
          /\ generation' = generation + 1
          /\ made' = {}
          /\ idle' = FreshSlots
          /\ waiters' = <<>>
          /\ NotifyAll(c, s)
    /\ UNCHANGED <<alive, at, late, shutting>>

Execute(c) == ReopenIfClosed(c, "arrived")

(***************************************************************************)
(* One round of the loop of _acquire_slot when the queue is ws: the head   *)
(* of the queue takes an idle slot, every other thread waits, and a thread *)
(* that finds the pool closed, the queue emptied by a reopening            *)
(* (_waiters[0] raises IndexError) or its deadline passed raises: it       *)
(* leaves the queue and notifies the others.                               *)
(***************************************************************************)
MayTake(c, ws) == ws # <<>> /\ Head(ws) = c /\ idle # <<>>

TakeSlot(c, ws) ==
    /\ ~closed
    /\ MayTake(c, ws)
    /\ waiters' = Tail(ws)
    /\ idle' = Tail(idle)
    /\ at' = [at EXCEPT ![c] = <<Head(idle), generation>>]
    /\ Move(c, "leased")
    /\ UNCHANGED <<closed, generation, made, alive, late, shutting>>

Wait(c, ws) ==
    /\ ~closed
    /\ ws # <<>>
    /\ ~MayTake(c, ws)
    /\ c \notin late
    /\ waiters' = ws
    /\ Move(c, "asleep")
    /\ UNCHANGED <<closed, generation, idle, made, alive, at, late, shutting>>

\* deque.remove, for a waiter that may not be in the queue.
Without(ws, c) ==
    IF \E i \in DOMAIN ws : ws[i] = c
    THEN LET i == CHOOSE i \in DOMAIN ws : ws[i] = c
         IN  SubSeq(ws, 1, i - 1) \o SubSeq(ws, i + 1, Len(ws))
    ELSE ws

\* Variant: the waiter is left in the queue.
GiveUpQueued(c, ws) ==
    /\ closed \/ ws = <<>> \/ (~MayTake(c, ws) /\ c \in late)
    /\ waiters' = ws
    /\ NotifyAll(c, "idle")
    /\ Forget(c)
    /\ UNCHANGED <<closed, generation, idle, made, alive, shutting>>

GiveUp(c, ws) ==
    /\ closed \/ ws = <<>> \/ (~MayTake(c, ws) /\ c \in late)
    /\ waiters' = Without(ws, c)
    /\ NotifyAll(c, "idle")
    /\ Forget(c)
    /\ UNCHANGED <<closed, generation, idle, made, alive, shutting>>

\* _acquire_slot up to the first wait.
Admit(c) ==
    /\ pc[c] = "arrived"
    /\ ~closed
    /\ Len(waiters) < MaxPending
    /\ LET ws == Append(waiters, c) IN TakeSlot(c, ws) \/ Wait(c, ws) \/ GiveUp(c, ws)

\* The pool is closed, or its admission queue is full.
Refuse(c) ==
    /\ pc[c] = "arrived"
    /\ closed \/ Len(waiters) >= MaxPending
    /\ Move(c, "idle")
    /\ Forget(c)
    /\ UNCHANGED <<poolVars, alive, shutting>>

\* The thread has been woken and holds the lock again.
LookAgain(c) ==
    /\ pc[c] = "awake"
    /\ TakeSlot(c, waiters) \/ Wait(c, waiters) \/ GiveUp(c, waiters)

\* The deadline of a call passes; a sleeping thread wakes up.
Deadline(c) ==
    /\ pc[c] \in Waiting \cup {"arrived", "leased"}
    /\ c \notin late
    /\ late' = late \cup {c}
    /\ Move(c, IF pc[c] = "asleep" THEN "awake" ELSE pc[c])
    /\ UNCHANGED <<poolVars, alive, at, shutting>>

-----------------------------------------------------------------------------
\* _transport_at_locked: the transport of a slot is made, with its actor, on first use.
TransportAt(s) ==
    /\ made' = made \cup {s}
    /\ alive' = IF s \in made THEN alive ELSE alive \cup {<<s, generation>>}

\* Variant: the generation of the lease is not compared.
ObtainTransportOfAny(c) ==
    /\ pc[c] = "leased"
    /\ c \notin late
    /\ ~closed
    /\ TransportAt(at[c][1])
    /\ at' = [at EXCEPT ![c] = <<at[c][1], generation>>]
    /\ Move(c, "obtained")
    /\ UNCHANGED <<closed, generation, idle, waiters, late, shutting>>

\* execute looks at its deadline and takes the transport of its own generation ...
ObtainTransport(c) ==
    /\ pc[c] = "leased"
    /\ c \notin late
    /\ ~closed
    /\ at[c][2] = generation
    /\ TransportAt(at[c][1])
    /\ Move(c, "obtained")
    /\ UNCHANGED <<closed, generation, idle, waiters, at, late, shutting>>

\* ... or raises.
FailToObtain(c) ==
    /\ pc[c] = "leased"
    /\ c \in late \/ closed \/ at[c][2] # generation
    /\ Move(c, "releasing")
    /\ UNCHANGED <<poolVars, alive, at, late, shutting>>

\* SocketTransport._submit_ticket starts an actor when there is none.
StartRequest(c) ==
    /\ pc[c] = "obtained"
    /\ alive' = alive \cup {at[c]}
    /\ Move(c, "executing")
    /\ UNCHANGED <<poolVars, at, late, shutting>>

\* The request is answered, times out, or fails with its transport.
EndRequest(c) ==
    /\ pc[c] = "executing"
    /\ Move(c, "releasing")
    /\ UNCHANGED <<poolVars, alive, at, late, shutting>>

IsIdle(s) == \E i \in DOMAIN idle : idle[i] = s

\* Variant: the generation of the lease is not compared.
ReleaseSlotOfAny(c) ==
    /\ pc[c] = "releasing"
    /\ idle' = IF ~IsIdle(at[c][1]) /\ ~closed THEN Append(idle, at[c][1]) ELSE idle
    /\ NotifyAll(c, "idle")
    /\ Forget(c)
    /\ UNCHANGED <<closed, generation, waiters, made, alive, shutting>>

\* Variant: nobody is notified.
ReleaseSlotSilently(c) ==
    /\ pc[c] = "releasing"
    /\ idle' = IF at[c][2] = generation /\ ~IsIdle(at[c][1]) /\ ~closed
               THEN Append(idle, at[c][1])
               ELSE idle
    /\ Move(c, "idle")
    /\ Forget(c)
    /\ UNCHANGED <<closed, generation, waiters, made, alive, shutting>>

\* _release_slot: only a slot of the current generation goes back.
ReleaseSlot(c) ==
    /\ pc[c] = "releasing"
    /\ idle' = IF at[c][2] = generation /\ ~IsIdle(at[c][1]) /\ ~closed
               THEN Append(idle, at[c][1])
               ELSE idle
    /\ NotifyAll(c, "idle")
    /\ Forget(c)
    /\ UNCHANGED <<closed, generation, waiters, made, alive, shutting>>

-----------------------------------------------------------------------------
\* connect() goes through the slots without taking them.
Connect(c) == ReopenIfClosed(c, "connecting")

ConnectSlot(c) ==
    /\ pc[c] = "connecting"
    /\ ~closed
    /\ TransportAt(at[c][1])
    /\ at' = [at EXCEPT ![c] = <<at[c][1], generation>>]
    /\ Move(c, "dialling")
    /\ UNCHANGED <<closed, generation, idle, waiters, late, shutting>>

\* The pool was closed since the last slot.
ConnectFails(c) ==
    /\ pc[c] = "connecting"
    /\ closed
    /\ Move(c, "idle")
    /\ Forget(c)
    /\ UNCHANGED <<poolVars, alive, shutting>>

\* SocketTransport.connect also starts an actor when there is none; it may raise.
Dial(c) ==
    /\ pc[c] = "dialling"
    /\ alive' = alive \cup {at[c]}
    /\ \/ /\ at[c][1] + 1 \in Slot
          /\ at' = [at EXCEPT ![c] = <<at[c][1] + 1, 0>>]
          /\ Move(c, "connecting")
          /\ UNCHANGED late
       \/ /\ Move(c, "idle")
          /\ Forget(c)
    /\ UNCHANGED <<poolVars, shutting>>

\* Variant: closing does not start a new generation.
CloseSameGeneration(c) ==
    /\ pc[c] = "idle"
    /\ ~closed
    /\ closed' = TRUE
    /\ idle' = <<>>
    /\ shutting' = [shutting EXCEPT ![c] = made \X {generation}]
    /\ NotifyAll(c, "closing")
    /\ UNCHANGED <<generation, waiters, made, alive, at, late>>

\* close() under the lock; a second close() returns at once.
Close(c) ==
    /\ pc[c] = "idle"
    /\ ~closed
    /\ closed' = TRUE
    /\ generation' = generation + 1
    /\ idle' = <<>>
    /\ shutting' = [shutting EXCEPT ![c] = made \X {generation}]
    /\ NotifyAll(c, "closing")
    /\ UNCHANGED <<waiters, made, alive, at, late>>

\* Outside the lock, the transports are closed one after the other.
CloseTransport(c) ==
    /\ pc[c] = "closing"
    /\ \E t \in shutting[c] :
          /\ \A u \in shutting[c] : t[1] <= u[1]
          /\ shutting' = [shutting EXCEPT ![c] = @ \ {t}]
          /\ alive' = alive \ {t}
    /\ UNCHANGED <<poolVars, pc, at, late>>

CloseReturns(c) ==
    /\ pc[c] = "closing"
    /\ shutting[c] = {}
    /\ Move(c, "idle")
    /\ UNCHANGED <<poolVars, alive, at, late, shutting>>

-----------------------------------------------------------------------------
\* What a thread does once it has called the pool.
CallerStep(c) ==
    \/ Admit(c) \/ Refuse(c) \/ LookAgain(c)
    \/ ObtainTransport(c) \/ FailToObtain(c)
    \/ StartRequest(c) \/ EndRequest(c) \/ ReleaseSlot(c)
    \/ ConnectSlot(c) \/ ConnectFails(c) \/ Dial(c)
    \/ CloseTransport(c) \/ CloseReturns(c)

Next ==
    \E c \in Caller :
        \/ CallerStep(c)
        \/ Execute(c) \/ Connect(c) \/ Close(c)
        \/ Deadline(c)

Spec == Init /\ [][Next]_vars

\* Threads go on, requests end by their own timeout; nobody has to call, and time may stand still.
Fairness == \A c \in Caller : WF_vars(CallerStep(c))

-----------------------------------------------------------------------------
\* Every variable has its type.
TypeOK ==
    /\ closed \in BOOLEAN
    /\ generation \in Nat
    /\ idle \in Seq(Slot)
    /\ waiters \in Seq(Caller)
    /\ made \subseteq Slot
    /\ alive \subseteq Transport
    /\ pc \in [Caller -> ThreadState]
    /\ at \in [Caller -> Transport]
    /\ late \subseteq Caller
    /\ shutting \in [Caller -> SUBSET Transport]

(***************************************************************************)
(* No slot is lost and none is handed out twice: while the pool is open    *)
(* each slot is either idle, once, or held by exactly one thread that was  *)
(* admitted in the current generation, whatever timed out, failed or was   *)
(* released late in between.                                               *)
(***************************************************************************)
Holders(s) == {c \in Caller : pc[c] \in Holding /\ at[c] = <<s, generation>>}

SlotAccounting ==
    /\ \A i, j \in DOMAIN idle : idle[i] = idle[j] => i = j
    /\ \A s \in Slot :
          IF closed THEN ~IsIdle(s) /\ Holders(s) = {}
          ELSE IF IsIdle(s) THEN Holders(s) = {} ELSE \E c \in Caller : Holders(s) = {c}

(***************************************************************************)
(* No two requests share a socket: a thread that was admitted is alone on  *)
(* its transport until it releases it, also when the pool has been closed  *)
(* and reopened under it.                                                  *)
(***************************************************************************)
ExclusiveTransport ==
    \A c, d \in Caller :
        pc[c] \in Holding /\ pc[d] \in Holding /\ at[c] = at[d] => c = d

(***************************************************************************)
(* The queue holds threads that are really waiting, each once: a waiter    *)
(* left behind by a timeout or an error would keep everyone behind it out. *)
(***************************************************************************)
NoGhostWaiter ==
    /\ \A i \in DOMAIN waiters : pc[waiters[i]] \in Waiting
    /\ \A i, j \in DOMAIN waiters : waiters[i] = waiters[j] => i = j
    /\ Len(waiters) <= MaxPending

(***************************************************************************)
(* The pool implements the abstract SlotLease: the lease of a slot is held *)
(* by the thread admitted to it in the current generation.                 *)
(***************************************************************************)
HolderOf(s) == IF Holders(s) = {} THEN Nobody ELSE CHOOSE c \in Caller : c \in Holders(s)

Leases == INSTANCE SlotLease WITH
    Client <- Caller, open <- ~closed, holder <- [s \in Slot |-> HolderOf(s)]

LeaseSpec == Leases!Spec

(***************************************************************************)
(* While the pool stays open every thread in the queue gets a slot, even   *)
(* if no deadline ever wakes it, or gives up because its deadline passed.  *)
(***************************************************************************)
WaitersAreServed ==
    [](~closed) => \A c \in Caller : pc[c] = "asleep" ~> pc[c] \in {"leased", "idle"}
=============================================================================
