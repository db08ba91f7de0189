--------------------------- MODULE MCDownloadWriter ---------------------------
(***************************************************************************)
(* Instances of DownloadWriter for TLC: two keys, of which one moves from  *)
(* one partition to another, frames of up to two rows, also two with one   *)
(* key, and at most Writes writes one after the other.                     *)
(***************************************************************************)
EXTENDS DownloadWriter

CONSTANT Writes
VARIABLE writes

MCRow ==
    {[key |-> "a", date |-> 1, group |-> 1, value |-> "old"],
     [key |-> "a", date |-> 1, group |-> 1, value |-> "new"],
     [key |-> "a", date |-> 2, group |-> 2, value |-> "old"],
     [key |-> "b", date |-> 2, group |-> 1, value |-> "old"],
     [key |-> "b", date |-> 3, group |-> 2, value |-> "old"]}

MCFrames == UNION {[1 .. n -> MCRow] : n \in 0 .. 2}

MCProfiles ==
    {f \in [mode : Mode, partitionBy : {"none", "date", "group"}, formats : {{"parquet", "csv"}}] :
        /\ f.mode \in {"append", "snapshot"} => f.partitionBy = "none"
        /\ f.mode = "overwrite_partition" => f.partitionBy # "none"}

MCInit == Init /\ writes = 0

MCNext ==
    /\ Next
    /\ pc = "idle" => writes < Writes
    /\ writes' = IF pc = "idle" THEN writes + 1 ELSE writes

MCSpec == MCInit /\ [][MCNext]_<<vars, writes>>
=============================================================================
