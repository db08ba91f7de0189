------------------------------ MODULE MCTdxPool ------------------------------
(***************************************************************************)
(* Instances of TdxPool for TLC.  Shutdowns bounds how often the pool is   *)
(* closed, and with it the generations; Connector are the threads that may *)
(* call connect(), and Timeouts says whether deadlines pass.               *)
(***************************************************************************)
EXTENDS TdxPool

CONSTANTS
    Shutdowns,  \* how often close() is called
    Connector,  \* threads that call connect()
    Timeouts    \* whether deadlines pass

MCNext ==
    \/ \E c \in Caller : CallerStep(c)
    \/ \E c \in Caller : Execute(c)
    \/ \E c \in Connector : Connect(c)
    \/ generation < 2 * Shutdowns /\ \E c \in Caller : Close(c)
    \/ Timeouts /\ \E c \in Caller : Deadline(c)

MCSpec == Init /\ [][MCNext]_vars
MCFairSpec == MCSpec /\ Fairness
=============================================================================
