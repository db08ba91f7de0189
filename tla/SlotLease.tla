------------------------------ MODULE SlotLease ------------------------------
(***************************************************************************)
(* What a pool of connections promises: while it is open every slot is     *)
(* free or leased to one client, and closing it revokes every lease.       *)
(***************************************************************************)
CONSTANTS Client, Slot,
    Nobody      \* no client

VARIABLES
    open,
    holder      \* the client each slot is leased to

AllFree == [s \in Slot |-> Nobody]

Init ==
    /\ open = TRUE
    /\ holder = AllFree

Lease(c, s) ==
    /\ open
    /\ holder[s] = Nobody
    /\ holder' = [holder EXCEPT ![s] = c]
    /\ UNCHANGED open

GiveBack(c, s) ==
    /\ holder[s] = c
    /\ holder' = [holder EXCEPT ![s] = Nobody]
    /\ UNCHANGED open

Revoke ==
    /\ open
    /\ open' = FALSE
    /\ holder' = AllFree

Reopen ==
    /\ ~open
    /\ open' = TRUE
    /\ UNCHANGED holder

Next ==
    \/ \E c \in Client, s \in Slot : Lease(c, s) \/ GiveBack(c, s)
    \/ Revoke
    \/ Reopen

Spec == Init /\ [][Next]_<<open, holder>>
=============================================================================
