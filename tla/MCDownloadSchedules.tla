-------------------------- MODULE MCDownloadSchedules --------------------------
(***************************************************************************)
(* Instances of DownloadSchedules for TLC: Events requests and restarts at *)
(* most, beside a tick that runs at any time, and two days of which one is *)
(* no trading day.  The calendar is empty at first or has a gap.           *)
(***************************************************************************)
EXTENDS DownloadSchedules

CONSTANT Events
VARIABLE events

MCRanges == {{0}, {2, 3}}

MCInit ==
    /\ Init
    /\ cached \in {{}, {0, 2}}
    /\ \A i \in TradeDaily : disk[i] # Absent
    /\ events = 0

MCNext ==
    \/ Continue /\ UNCHANGED events
    \/ /\ events < Events
       /\ events' = events + 1
       /\ Restart \/ \E t \in Request : RequestStarts(t)

MCSpec == MCInit /\ [][MCNext]_<<vars, events>>
=============================================================================
