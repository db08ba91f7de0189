----------------------------- MODULE DownloadWriter -----------------------------
(***************************************************************************)
(* Writing the rows of a download to files: write_outputs_with_metadata    *)
(* of DownloadWriter, for every write mode, with the file operations of a  *)
(* Parquet dataset one by one, so that a write can end between any two of  *)
(* them, by an exception or with its process.                              *)
(*                                                                         *)
(* A row has a key (its primary key), a date and a group (another field to *)
(* partition by).  A frame is a sequence of rows, a dataset a set of rows. *)
(* The place of a file is the value of its partition, or a number when the *)
(* dataset is not partitioned; a partition's files of older layouts count  *)
(* as part of it.  Temporary files are invisible to readers and left out,  *)
(* and so are empty partitions, which read as missing ones.                *)
(***************************************************************************)
EXTENDS Naturals, Sequences

CONSTANTS
    Row,            \* rows: records with key, date, group and a value
    Place,          \* numbers of places
    Frames,         \* what downloads return
    Profiles        \* write mode, partitioning and formats of a downloader

Mode == {"append", "snapshot", "upsert_by_key", "replace_range", "overwrite_partition"}

ASSUME WriterAssumption ==
    /\ Place \subseteq Nat
    /\ 0 \in Place
    /\ \A r \in Row : r.date \in Place /\ r.group \in Place
    /\ Frames \subseteq Seq(Row)
    /\ \A f \in Profiles :
         /\ f.mode \in Mode
         /\ f.partitionBy \in {"none", "date", "group"}
         /\ f.mode \in {"append", "snapshot"} => f.partitionBy = "none"
         /\ f.mode = "overwrite_partition" => f.partitionBy # "none"

VARIABLES
    profile,        \* the downloader's profile
    files,          \* places that have a Parquet file
    disk,           \* the rows in it
    exports,        \* the frame in the file of each other format
    log,            \* the frame that the run log is about
    pc,             \* where the writer is
    frame,          \* the frame being written
    left,           \* formats still to be written
    merged,         \* rows that the Parquet files will hold
    toRemove,       \* partitions still to be removed
    toWrite,        \* partitions still to be written
    before,         \* the dataset when the write began
    unread,         \* whether reading it failed
    result          \* how the write ended

parquetVars == <<files, disk>>
fileVars == <<parquetVars, exports, log>>
planVars == <<merged, toRemove, toWrite>>
callVars == <<profile, frame, before>>
vars == <<callVars, fileVars, pc, left, planVars, unread, result>>

Partitioned == profile.partitionBy # "none"

PlaceOf(r) == CASE profile.partitionBy = "date" -> r.date
                [] profile.partitionBy = "group" -> r.group
                [] OTHER -> 0

Places(rows) == {PlaceOf(r) : r \in rows}
Dataset == UNION {disk[p] : p \in Place}
RowsOf(f) == {f[i] : i \in DOMAIN f}

Init ==
    /\ profile \in Profiles
    /\ files = {}
    /\ disk = [p \in Place |-> {}]
    /\ exports = [e \in profile.formats \ {"parquet"} |-> <<>>]
    /\ log = <<>>
    /\ pc = "idle"
    /\ frame = <<>> /\ left = {}
    /\ merged = {} /\ toRemove = {} /\ toWrite = {}
    /\ before = {} /\ unread = FALSE /\ result = "none"

-----------------------------------------------------------------------------
(* What each mode makes of the existing rows and the frame. *)

\* drop_duplicates(keep="last") on the frame
LastByKey(f) == {f[i] : i \in {j \in DOMAIN f : \A k \in j + 1 .. Len(f) : f[k].key # f[j].key}}

\* and on the existing rows before it, which are read place by place
KeptByKey(rows, f) ==
    {r \in rows : /\ \A n \in RowsOf(f) : n.key # r.key
                  /\ \A o \in rows : o.key = r.key => PlaceOf(o) <= PlaceOf(r)}

\* _replace_range_bounds without explicit bounds
InRange(d, f) == /\ \E r \in RowsOf(f) : r.date <= d
                 /\ \E r \in RowsOf(f) : d <= r.date

KeptByRange(rows, f) == {r \in rows : ~InRange(r.date, f)}

Merge(rows, f) ==
    CASE profile.mode = "upsert_by_key" -> KeptByKey(rows, f) \cup LastByKey(f)
      [] profile.mode = "replace_range" -> KeptByRange(rows, f) \cup RowsOf(f)
      [] OTHER -> RowsOf(f)

\* Variant: partitions whose rows have moved elsewhere are not looked for.
NoStale(rows, f) == {}

\* Variant: all partitions are removed before the new ones are written.
AllExisting(rows, f) == Places(rows)

\* _remove_stale_partitions
Stale(rows, f) ==
    IF profile.mode \in {"upsert_by_key", "replace_range"} /\ Partitioned
    THEN Places(rows) \ Places(Merge(rows, f))
    ELSE {}

\* _remove_date_range_partitions
RangePartitions(f) ==
    IF profile.mode = "replace_range" /\ profile.partitionBy = "date"
    THEN {p \in Place : InRange(p, f)}
    ELSE {}

-----------------------------------------------------------------------------
Begin(f) ==
    /\ pc = "idle"
    /\ pc' = "format"
    /\ frame' = f
    /\ left' = profile.formats
    /\ merged' = {} /\ toRemove' = {} /\ toWrite' = {}
    /\ before' = Dataset
    /\ unread' = FALSE
    /\ result' = "none"
    /\ UNCHANGED <<profile, fileVars>>

\* A format other than Parquet is one file, replaced atomically.
WriteExport(e) ==
    /\ pc = "format"
    /\ e \in left \ {"parquet"}
    /\ exports' = [exports EXCEPT ![e] = frame]
    /\ left' = left \ {e}
    /\ UNCHANGED <<callVars, parquetVars, log, pc, planVars, unread, result>>

\* append and snapshot: one file, the next free one for append.
Target(p) ==
    IF profile.mode = "append"
    THEN p \notin files /\ \A q \in Place : q < p => q \in files
    ELSE p = 0

PlanSingle(p) ==
    /\ pc = "format"
    /\ "parquet" \in left
    /\ profile.mode \in {"append", "snapshot"}
    /\ Target(p)
    /\ merged' = RowsOf(frame)
    /\ toWrite' = {p}
    /\ pc' = "replace"
    /\ UNCHANGED <<callVars, fileVars, left, toRemove, unread, result>>

Refused == profile.mode = "replace_range" /\ frame = <<>>

\* The existing rows are read and merged; an OSError counts as no rows.
PlanMerge ==
    /\ pc = "format"
    /\ "parquet" \in left
    /\ profile.mode \notin {"append", "snapshot"}
    /\ ~Refused
    /\ \E error \in BOOLEAN :
         LET existing == IF error THEN {} ELSE Dataset
         IN  /\ error => Dataset # {} /\ profile.mode # "overwrite_partition"
             /\ unread' = error
             /\ merged' = Merge(existing, frame)
             /\ toRemove' = RangePartitions(frame) \cup Stale(existing, frame)
             /\ toWrite' = IF Partitioned THEN Places(merged') ELSE {0}
    /\ pc' = "remove"
    /\ UNCHANGED <<callVars, fileVars, left, result>>

Remove(p) ==
    /\ files' = files \ {p}
    /\ disk' = [disk EXCEPT ![p] = {}]

RemovePartition(p) ==
    /\ pc = "remove"
    /\ p \in toRemove
    /\ Remove(p)
    /\ toRemove' = toRemove \ {p}
    /\ UNCHANGED <<callVars, exports, log, pc, left, merged, toWrite, unread, result>>

\* Variant: a dataset in one file is removed before it is written again.
RemoveThenWrite ==
    /\ pc = "remove"
    /\ toRemove = {}
    /\ pc' = "clear"
    /\ UNCHANGED <<callVars, fileVars, left, planVars, unread, result>>

\* A dataset in one file is replaced as it is, a partition is removed first.
RemovalsDone ==
    /\ pc = "remove"
    /\ toRemove = {}
    /\ pc' = IF Partitioned THEN "clear" ELSE "replace"
    /\ UNCHANGED <<callVars, fileVars, left, planVars, unread, result>>

IsNext(p) == p \in toWrite /\ \A q \in toWrite : p <= q

ClearPartition(p) ==
    /\ pc = "clear"
    /\ IsNext(p)
    /\ Remove(p)
    /\ pc' = "replace"
    /\ UNCHANGED <<callVars, exports, log, left, planVars, unread, result>>

\* Variant: the rows of all partitions go into each file.
AllRows(p) == merged

RowsFor(p) == IF Partitioned THEN {r \in merged : PlaceOf(r) = p} ELSE merged

ReplaceFile(p) ==
    /\ pc = "replace"
    /\ IsNext(p)
    /\ files' = files \cup {p}
    /\ disk' = [disk EXCEPT ![p] = RowsFor(p)]
    /\ toWrite' = toWrite \ {p}
    /\ pc' = IF Partitioned THEN "clear" ELSE "written"
    /\ UNCHANGED <<callVars, exports, log, left, merged, toRemove, unread, result>>

ParquetDone ==
    /\ \/ pc = "clear" /\ toWrite = {}
       \/ pc = "written"
    /\ pc' = "format"
    /\ left' = left \ {"parquet"}
    /\ UNCHANGED <<callVars, fileVars, planVars, unread, result>>

\* write_run_log, after all formats
WriteLog ==
    /\ pc = "format"
    /\ left = {}
    /\ log' = frame
    /\ pc' = "idle"
    /\ result' = "done"
    /\ UNCHANGED <<callVars, parquetVars, exports, left, planVars, unread>>

\* An exception of any step, or the end of the process.
Fail ==
    /\ pc # "idle"
    /\ pc' = "idle"
    /\ result' = "failed"
    /\ UNCHANGED <<callVars, fileVars, left, planVars, unread>>

Next ==
    \/ \E f \in Frames : Begin(f)
    \/ \E e \in left : WriteExport(e)
    \/ \E p \in Place :
         PlanSingle(p) \/ RemovePartition(p) \/ ClearPartition(p) \/ ReplaceFile(p)
    \/ PlanMerge \/ RemovalsDone \/ ParquetDone \/ WriteLog \/ Fail

Spec == Init /\ [][Next]_vars

-----------------------------------------------------------------------------
(***************************************************************************)
(* What a write promises: the dataset that each mode is to leave behind.   *)
(***************************************************************************)
Kept ==
    CASE profile.mode = "append" -> before
      [] profile.mode = "snapshot" -> {}
      [] profile.mode = "upsert_by_key" -> KeptByKey(before, frame)
      [] profile.mode = "replace_range" -> KeptByRange(before, frame)
      [] profile.mode = "overwrite_partition" ->
           {r \in before : PlaceOf(r) \notin Places(RowsOf(frame))}

Reference ==
    Kept \cup IF profile.mode = "upsert_by_key" THEN LastByKey(frame) ELSE RowsOf(frame)

State == {"idle", "format", "remove", "clear", "replace", "written"}

\* Every variable keeps its type, and a partition's file holds rows of that
\* partition only (_write_partitioned_parquet).
TypeOK ==
    /\ profile \in Profiles
    /\ files \subseteq Place
    /\ disk \in [Place -> SUBSET Row]
    /\ \A p \in Place \ files : disk[p] = {}
    /\ exports \in [profile.formats \ {"parquet"} -> Seq(Row)]
    /\ log \in Seq(Row)
    /\ pc \in State
    /\ frame \in Seq(Row)
    /\ left \subseteq profile.formats
    /\ merged \subseteq Row /\ toRemove \subseteq Place /\ toWrite \subseteq Place
    /\ before \subseteq Row
    /\ unread \in BOOLEAN
    /\ result \in {"none", "done", "failed"}
    /\ Partitioned => \A p \in Place : \A r \in disk[p] : PlaceOf(r) = p

\* A run is logged as a success only when the dataset is what its mode is to
\* make of the rows before and the new ones, stale partitions included, and
\* every other format has the new rows; unless reading the old rows failed.
SuccessIsComplete ==
    result = "done" =>
        /\ "parquet" \in profile.formats /\ ~unread => Dataset = Reference
        /\ \A e \in DOMAIN exports : exports[e] = frame
        /\ log = frame

\* Wherever a write stops, a dataset in one file is the old or the new one.
SingleFileIsAtomic ==
    ~Partitioned /\ ~unread => Dataset \in {before, Reference}

\* Wherever a write stops, of the rows that it is to keep those of one
\* partition at most are missing, and none in the mode overwrite_partition.
OnePartitionAtRisk ==
    ~unread =>
        /\ \E p \in Place : \A r \in Kept \ Dataset : PlaceOf(r) = p
        /\ profile.mode = "overwrite_partition" => Kept \subseteq Dataset
=============================================================================
