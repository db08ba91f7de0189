---------------------------- MODULE MCSocketActor ----------------------------
(***************************************************************************)
(* Instances of SocketActor for TLC.  Tickets and actors are used up;      *)
(* Events bounds the heartbeats and the broken connections, to keep the    *)
(* product of their choices small.                                         *)
(***************************************************************************)
EXTENDS SocketActor, TLC

CONSTANTS
    Events,     \* how many heartbeats fall due and connections break
    Closers     \* callers that call close()

VARIABLE events

Symmetry == Permutations(Ticket)

Spend == events > 0 /\ events' = events - 1

MCInit == Init /\ events = Events

MCNext ==
    \/ \E a \in Actor : ActorStep(a) /\ UNCHANGED events
    \/ \E c \in Caller : CallerStep(c) /\ UNCHANGED events
    \/ \E c \in Closers : Close(c) /\ UNCHANGED events
    \/ \E c \in Caller, t \in Ticket : SubmitTicket(c, t) /\ UNCHANGED events
    \/ \E t \in AnyTicket : Deadline(t) /\ UNCHANGED events
    \/ \E k \in Connection : Answer(k) /\ UNCHANGED events
    \/ \E a \in Actor : Spend /\ BeginHeartbeat(a)
    \/ \E k \in Connection : Spend /\ Break(k)

MCSpec == MCInit /\ [][MCNext]_<<vars, events>>
MCFairSpec == MCSpec /\ Fairness
=============================================================================
