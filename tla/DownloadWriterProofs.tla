-------------------------- MODULE DownloadWriterProofs --------------------------
(***************************************************************************)
(* Proofs about DownloadWriter, for any rows, places, frames and profiles. *)
(***************************************************************************)
EXTENDS DownloadWriter, TLAPS

Appending == profile.mode = "append"
Overwriting == profile.mode = "overwrite_partition"

\* The rows of one place.
At(rows, p) == {r \in rows : PlaceOf(r) = p}

\* What a dataset keeps without being read.
Untouched == IF Overwriting THEN {r \in before : PlaceOf(r) \notin Places(RowsOf(frame))} ELSE {}

PlannedPlaces == IF Partitioned THEN Places(merged) ELSE {0}

\* Only a new file may hold rows of elsewhere, and only when nothing is partitioned.
InPlace == ~Appending => \A p \in Place : \A r \in disk[p] : PlaceOf(r) = p

\* What a call has done to the formats.
CallFits ==
    pc # "idle" =>
        /\ result = "none"
        /\ pc # "remove" => toRemove = {}
        /\ \A e \in DOMAIN exports : e \in left \/ exports[e] = frame
        /\ pc \in {"remove", "clear", "replace", "written"} =>
             "parquet" \in left /\ "parquet" \in profile.formats
        /\ "parquet" \notin profile.formats \/ (pc = "format" /\ "parquet" \in left) =>
             ~unread /\ Dataset = before
        /\ pc = "format" /\ "parquet" \notin left /\ "parquet" \in profile.formats /\ ~unread =>
             Dataset = Reference

\* What the planned rows and places are.
PlanFits ==
    pc \in {"remove", "clear", "replace", "written"} =>
        /\ ~unread => IF Appending THEN merged = RowsOf(frame) ELSE Reference = merged \cup Untouched
        /\ Overwriting => merged = RowsOf(frame)
        /\ ~Appending => toWrite \subseteq PlannedPlaces
        /\ ~unread => \A p \in toRemove : At(Kept, p) = {}
        /\ ~Partitioned \/ Overwriting => toRemove = {}
        /\ pc = "remove" => toWrite = PlannedPlaces /\ ~Appending
        /\ pc = "clear" => Partitioned
        /\ pc = "written" => ~Partitioned /\ (~Appending => toWrite = {})

\* A place that has not been written is as before, or had nothing to be kept.
Safe(p) ==
    \/ disk[p] = At(before, p)
    \/ Partitioned /\ ~Overwriting /\ disk[p] = {} /\ At(Kept, p) = {}

\* The place that was cleared last and is to be written next.
Cleared(p) == pc = "replace" /\ Partitioned /\ IsNext(p)

\* What has become of each place.
PlaceFits ==
    ~Appending /\ ~unread /\ pc \in {"remove", "clear", "replace", "written"} =>
        \A p \in Place :
            /\ p \in toWrite => Cleared(p) \/ Safe(p)
            /\ p \in PlannedPlaces \ toWrite => disk[p] = At(merged, p)
            /\ p \notin PlannedPlaces =>
                 /\ Safe(p)
                 /\ ~Overwriting => disk[p] = {} \/ (pc = "remove" /\ p \in toRemove)

\* A new file is written where none is.
AppendFits ==
    Appending /\ pc \in {"remove", "clear", "replace", "written"} =>
        /\ ~unread
        /\ pc = "replace" => Dataset = before /\ \A p \in toWrite : disk[p] = {}
        /\ pc = "written" => Dataset = before \cup merged

Promise == OnePartitionAtRisk /\ SingleFileIsAtomic

-----------------------------------------------------------------------------
LEMMA ProfileFacts ==
    ASSUME profile \in Profiles
    PROVE  /\ profile.mode \in Mode
           /\ profile.partitionBy \in {"none", "date", "group"}
           /\ profile.mode \in {"append", "snapshot"} => ~Partitioned
           /\ Overwriting => Partitioned
  BY WriterAssumption DEF Partitioned, Overwriting

LEMMA PlaceOfRow == ASSUME NEW r \in Row PROVE PlaceOf(r) \in Place
  BY WriterAssumption DEF PlaceOf

LEMMA RowsOfFrame == ASSUME NEW f \in Seq(Row) PROVE RowsOf(f) \subseteq Row /\ LastByKey(f) \subseteq RowsOf(f)
  BY DEF RowsOf, LastByKey

LEMMA PlacesOfRows == ASSUME NEW rows \in SUBSET Row PROVE Places(rows) \subseteq Place
  BY PlaceOfRow DEF Places

LEMMA DatasetOfRows == ASSUME disk \in [Place -> SUBSET Row] PROVE Dataset \subseteq Row
  BY DEF Dataset

LEMMA MergeOfRows ==
    ASSUME NEW rows \in SUBSET Row, NEW f \in Seq(Row)
    PROVE  Merge(rows, f) \subseteq Row
  BY RowsOfFrame DEF Merge, KeptByKey, KeptByRange

LEMMA TypeInit == Init => TypeOK
  <1> SUFFICES ASSUME Init PROVE TypeOK
    OBVIOUS
  <1>1. <<>> \in Seq(Row)
    OBVIOUS
  <1>2. exports \in [profile.formats \ {"parquet"} -> Seq(Row)] /\ log \in Seq(Row) /\ frame \in Seq(Row)
    BY <1>1 DEF Init
  <1>3. disk \in [Place -> SUBSET Row] /\ \A p \in Place : disk[p] = {}
    BY DEF Init
  <1> QED BY <1>2, <1>3 DEF Init, TypeOK, State

LEMMA TypeStep == TypeOK /\ [Next]_vars => TypeOK'
  <1> SUFFICES ASSUME TypeOK, [Next]_vars PROVE TypeOK'
    OBVIOUS
  <1> USE DEF callVars, fileVars, parquetVars, planVars, State
  <1>1. ASSUME NEW f \in Frames, Begin(f) PROVE TypeOK'
    <2>1. f \in Seq(Row)
      BY WriterAssumption
    <2>2. before' \subseteq Row
      BY <1>1, DatasetOfRows DEF Begin, TypeOK
    <2> QED BY <1>1, <2>1, <2>2 DEF Begin, TypeOK, Partitioned, PlaceOf
  <1>2. ASSUME NEW e \in left, WriteExport(e) PROVE TypeOK'
    BY <1>2 DEF WriteExport, TypeOK, Partitioned, PlaceOf
  <1>3. ASSUME NEW p \in Place, PlanSingle(p) PROVE TypeOK'
    <2>1. merged' \subseteq Row
      BY <1>3, RowsOfFrame DEF PlanSingle, TypeOK
    <2> QED BY <1>3, <2>1 DEF PlanSingle, TypeOK, Partitioned, PlaceOf
  <1>4. CASE PlanMerge
    <2>1. PICK error \in BOOLEAN :
            LET existing == IF error THEN {} ELSE Dataset
            IN  /\ unread' = error
                /\ merged' = Merge(existing, frame)
                /\ toRemove' = RangePartitions(frame) \cup Stale(existing, frame)
                /\ toWrite' = IF Partitioned THEN Places(merged') ELSE {0}
      BY <1>4 DEF PlanMerge
    <2> DEFINE existing == IF error THEN {} ELSE Dataset
    <2>2. existing \in SUBSET Row
      BY DatasetOfRows DEF TypeOK
    <2>3. merged' \subseteq Row
      BY <2>1, <2>2, MergeOfRows DEF TypeOK
    <2>4. toWrite' \subseteq Place
      BY <2>1, <2>3, PlacesOfRows, WriterAssumption
    <2>5. toRemove' \subseteq Place
      BY <2>1, <2>2, PlacesOfRows DEF RangePartitions, Stale
    <2> QED BY <1>4, <2>1, <2>3, <2>4, <2>5 DEF PlanMerge, TypeOK, Partitioned, PlaceOf
  <1>5. ASSUME NEW p \in Place, RemovePartition(p) PROVE TypeOK'
    BY <1>5 DEF RemovePartition, Remove, TypeOK, Partitioned, PlaceOf
  <1>6. CASE RemovalsDone
    BY <1>6 DEF RemovalsDone, TypeOK, Partitioned, PlaceOf
  <1>7. ASSUME NEW p \in Place, ClearPartition(p) PROVE TypeOK'
    BY <1>7 DEF ClearPartition, Remove, TypeOK, Partitioned, PlaceOf
  <1>8. ASSUME NEW p \in Place, ReplaceFile(p) PROVE TypeOK'
    <2>1. RowsFor(p) \subseteq Row /\ (Partitioned => \A r \in RowsFor(p) : PlaceOf(r) = p)
      BY DEF RowsFor, TypeOK
    <2> QED BY <1>8, <2>1 DEF ReplaceFile, TypeOK, Partitioned, PlaceOf
  <1>9. CASE ParquetDone
    BY <1>9 DEF ParquetDone, TypeOK, Partitioned, PlaceOf
  <1>10. CASE WriteLog
    BY <1>10 DEF WriteLog, TypeOK, Partitioned, PlaceOf
  <1>11. CASE Fail \/ UNCHANGED vars
    BY <1>11 DEF Fail, vars, TypeOK, Partitioned, PlaceOf
  <1> QED BY <1>1, <1>2, <1>3, <1>4, <1>5, <1>6, <1>7, <1>8, <1>9, <1>10, <1>11 DEF Next

\* Every variable keeps its type, and a partition's file holds rows of that
\* partition only.
THEOREM TypeCorrect == Spec => []TypeOK
  BY TypeInit, TypeStep, PTL DEF Spec

-----------------------------------------------------------------------------
(* The places of a dataset, and what a call leaves alone. *)

LEMMA SameCall ==
    ASSUME profile' = profile, frame' = frame, before' = before
    PROVE  /\ Reference' = Reference /\ Kept' = Kept /\ Untouched' = Untouched
           /\ Partitioned' = Partitioned /\ Appending' = Appending /\ Overwriting' = Overwriting
           /\ \A r : PlaceOf(r)' = PlaceOf(r)
  <1>1. \A r : PlaceOf(r)' = PlaceOf(r)
    BY DEF PlaceOf
  <1>2. Partitioned' = Partitioned /\ Appending' = Appending /\ Overwriting' = Overwriting
    BY DEF Partitioned, Appending, Overwriting
  <1>3. \A rows, f : KeptByKey(rows, f)' = KeptByKey(rows, f)
    BY <1>1 DEF KeptByKey
  <1>4. \A rows : Places(rows)' = Places(rows)
    BY <1>1 DEF Places
  <1>5. Kept' = Kept
    BY <1>1, <1>3, <1>4 DEF Kept
  <1>6. Untouched' = Untouched
    BY <1>1, <1>2, <1>4 DEF Untouched
  <1>7. Reference' = Reference
    BY <1>5 DEF Reference
  <1> QED BY <1>1, <1>2, <1>5, <1>6, <1>7

LEMMA KeptIsOld == ASSUME profile.mode \in Mode PROVE Kept \subseteq before /\ Kept \subseteq Reference
  BY DEF Kept, Reference, KeptByKey, KeptByRange, Mode

LEMMA NotPartitioned == ASSUME profile \in Profiles, ~Partitioned PROVE \A r : PlaceOf(r) = 0
  BY DEF Partitioned, PlaceOf

\* Every row is at its place.
LEMMA DatasetByPlace ==
    ASSUME disk \in [Place -> SUBSET Row], ~Appending, InPlace
    PROVE  \A p \in Place : disk[p] = At(Dataset, p)
  BY DEF InPlace, Dataset, At

\* The rows of all the planned places are the merged rows.
LEMMA MergedByPlace ==
    ASSUME profile \in Profiles, merged \subseteq Row, NEW r
    PROVE  /\ r \in merged => PlaceOf(r) \in Place /\ PlaceOf(r) \in PlannedPlaces
           /\ r \in merged <=> \E p \in Place : p \in PlannedPlaces /\ r \in At(merged, p)
  BY PlaceOfRow, NotPartitioned DEF PlannedPlaces, Places, At

\* What is planned for a call whose dataset was read is what it promises.
LEMMA MergeIsReference ==
    ASSUME profile \in Profiles, profile.mode \notin {"append"}
    PROVE  Reference = (IF profile.mode = "snapshot" THEN RowsOf(frame) ELSE Merge(before, frame)) \cup Untouched
  <1>1. profile.mode \in Mode
    BY ProfileFacts
  <1> QED BY <1>1 DEF Reference, Kept, Merge, Untouched, Overwriting, Mode

-----------------------------------------------------------------------------
(* What the phases of a call say about the dataset. *)

LEMMA PhasePromise ==
    ASSUME TypeOK, InPlace, CallFits, PlanFits, PlaceFits, AppendFits, pc # "idle"
    PROVE  Promise
  <1> SUFFICES ASSUME ~unread PROVE Promise
    BY DEF Promise, OnePartitionAtRisk, SingleFileIsAtomic
  <1>1. Kept \subseteq before /\ Kept \subseteq Reference
    BY KeptIsOld, ProfileFacts DEF TypeOK
  <1>2. ASSUME Dataset \in {before, Reference} PROVE Promise
    <2>1. Kept \ Dataset = {} /\ 0 \in Place
      BY <1>1, <1>2, WriterAssumption
    <2> QED BY <1>2, <2>1 DEF Promise, OnePartitionAtRisk, SingleFileIsAtomic
  <1>3. CASE pc = "format" \/ "parquet" \notin profile.formats
    BY <1>2, <1>3 DEF CallFits
  <1> DEFINE Phase == pc \in {"remove", "clear", "replace", "written"}
  <1>4. CASE Phase /\ Appending
    <2>1. ~Partitioned /\ Reference = before \cup RowsOf(frame)
      BY <1>4, ProfileFacts DEF Appending, Reference, Kept, TypeOK
    <2>2. merged = RowsOf(frame) /\ pc \in {"replace", "written"}
      BY <1>4, <2>1 DEF PlanFits
    <2> QED BY <1>2, <1>4, <2>1, <2>2 DEF AppendFits
  <1>5. CASE Phase /\ ~Appending /\ ~Partitioned
    <2>1. Reference = merged
      BY <1>5, ProfileFacts DEF PlanFits, Untouched, TypeOK
    <2>2. \A p \in Place : p # 0 => disk[p] = {}
      BY <1>5, NotPartitioned DEF TypeOK, InPlace
    <2>3. Dataset = disk[0] /\ 0 \in Place
      BY <2>2, WriterAssumption DEF Dataset
    <2>4. At(before, 0) = before /\ At(merged, 0) = merged
      BY <1>5, NotPartitioned DEF At, TypeOK
    <2>5. disk[0] \in {At(before, 0), At(merged, 0)}
      BY <1>5, <2>3 DEF PlaceFits, PlannedPlaces, Safe, Cleared
    <2> QED BY <1>2, <2>1, <2>3, <2>4, <2>5
  <1>6. CASE Phase /\ Partitioned
    <2>0. ~Appending
      BY <1>6, ProfileFacts DEF Appending, TypeOK
    <2>1. ASSUME NEW r \in Kept, ~Cleared(PlaceOf(r)) PROVE r \in Dataset
      <3> DEFINE q == PlaceOf(r)
      <3>1. r \in before /\ r \in Reference /\ q \in Place
        BY <1>1, <2>1, PlaceOfRow DEF TypeOK
      <3>2. r \in At(before, q) /\ r \in At(Kept, q)
        BY <2>1, <3>1 DEF At
      <3>3. CASE Safe(q)
        BY <3>1, <3>2, <3>3 DEF Safe, Dataset
      <3>4. CASE q \in PlannedPlaces \ toWrite
        <4>1. disk[q] = At(merged, q)
          BY <1>6, <2>0, <3>1, <3>4 DEF PlaceFits
        <4>2. ~Overwriting
          <5> SUFFICES ASSUME Overwriting PROVE FALSE
            OBVIOUS
          <5>1. Places(merged) = Places(RowsOf(frame))
            BY <1>6 DEF PlanFits
          <5>2. q \notin Places(RowsOf(frame))
            BY <2>1 DEF Kept, Overwriting
          <5> QED BY <1>6, <3>4, <5>1, <5>2 DEF PlannedPlaces
        <4>3. r \in merged
          BY <1>6, <2>0, <3>1, <4>2 DEF PlanFits, Untouched
        <4> QED BY <3>1, <4>1, <4>3 DEF At, Dataset
      <3> QED BY <1>6, <2>0, <2>1, <3>1, <3>3, <3>4 DEF PlaceFits
    <2>2. ASSUME Overwriting, NEW r \in Kept PROVE r \in Dataset
      <3>1. PlaceOf(r) \notin Places(RowsOf(frame))
        BY <2>2 DEF Kept, Overwriting
      <3>2. PlaceOf(r) \notin PlannedPlaces
        BY <1>6, <2>2, <3>1 DEF PlannedPlaces, PlanFits
      <3>3. PlaceOf(r) \notin toWrite
        BY <1>6, <2>0, <3>2 DEF PlanFits
      <3> QED BY <2>1, <3>3 DEF Cleared, IsNext
    <2>3. \E p \in Place : \A q \in Place : Cleared(q) => q = p
      <3>1. \A p, q \in Place : Cleared(p) /\ Cleared(q) => p = q
        BY WriterAssumption DEF Cleared, IsNext
      <3> QED BY <3>1, WriterAssumption
    <2>4. \A r \in Kept : PlaceOf(r) \in Place
      BY <1>1, PlaceOfRow DEF TypeOK
    <2>5. OnePartitionAtRisk
      <3>1. PICK p \in Place : \A q \in Place : Cleared(q) => q = p
        BY <2>3
      <3>2. \A r \in Kept \ Dataset : PlaceOf(r) = p
        BY <2>1, <2>4, <3>1
      <3> QED BY <2>2, <3>2 DEF OnePartitionAtRisk, Overwriting
    <2> QED BY <1>6, <2>5 DEF Promise, SingleFileIsAtomic
  <1> QED BY <1>3, <1>4, <1>5, <1>6 DEF TypeOK, State

-----------------------------------------------------------------------------
(* Each step keeps what the phases say. *)

Phases == InPlace /\ CallFits /\ PlanFits /\ PlaceFits /\ AppendFits

LEMMA BeginStep == ASSUME TypeOK, Phases, NEW f \in Frames, Begin(f) PROVE Phases'
  <1> USE DEF fileVars, parquetVars
  <1>1. profile' = profile /\ disk' = disk /\ Dataset' = Dataset
    BY DEF Begin, Dataset
  <1>2. InPlace'
    BY <1>1 DEF Phases, InPlace, Appending, PlaceOf
  <1>3. CallFits'
    BY <1>1 DEF Begin, CallFits, TypeOK
  <1>4. PlanFits' /\ PlaceFits' /\ AppendFits'
    BY DEF Begin, PlanFits, PlaceFits, AppendFits
  <1> QED BY <1>2, <1>3, <1>4 DEF Phases

LEMMA WriteExportStep == ASSUME TypeOK, Phases, NEW e \in left, WriteExport(e) PROVE Phases'
  <1> USE DEF callVars, parquetVars, planVars
  <1>1. disk' = disk /\ Dataset' = Dataset /\ Reference' = Reference /\ Appending' = Appending
    BY SameCall DEF WriteExport, Dataset
  <1>2. InPlace'
    BY <1>1, SameCall DEF Phases, InPlace, WriteExport
  <1>3. CallFits'
    BY <1>1 DEF WriteExport, CallFits, Phases, TypeOK
  <1>4. PlanFits' /\ PlaceFits' /\ AppendFits'
    BY DEF WriteExport, PlanFits, PlaceFits, AppendFits
  <1> QED BY <1>2, <1>3, <1>4 DEF Phases

LEMMA PlanSingleStep == ASSUME TypeOK, Phases, NEW p \in Place, PlanSingle(p) PROVE Phases'
  <1> USE DEF callVars, fileVars, parquetVars
  <1>1. /\ disk' = disk /\ Dataset' = Dataset /\ Reference' = Reference
        /\ Appending' = Appending /\ Partitioned' = Partitioned /\ Overwriting' = Overwriting
        /\ Kept' = Kept /\ Untouched' = Untouched /\ before' = before
        /\ \A r : PlaceOf(r)' = PlaceOf(r)
    BY SameCall DEF PlanSingle, Dataset
  <1>2. ~Partitioned /\ ~Overwriting /\ Dataset = before /\ ~unread /\ unread' = FALSE /\ toRemove' = {}
    BY ProfileFacts DEF PlanSingle, TypeOK, Overwriting, Phases, CallFits
  <1>3. InPlace'
    BY <1>1 DEF Phases, InPlace
  <1>4. CallFits'
    BY <1>1, <1>2 DEF PlanSingle, CallFits, Phases, TypeOK
  <1>5. merged' = RowsOf(frame) /\ toWrite' = {p} /\ pc' = "replace" /\ RowsOf(frame)' = RowsOf(frame)
    BY DEF PlanSingle, RowsOf
  <1>6. CASE Appending
    <2>1. disk[p] = {}
      BY <1>6 DEF PlanSingle, Target, Appending, TypeOK
    <2>2. PlanFits' /\ PlaceFits'
      BY <1>1, <1>2, <1>5, <1>6 DEF PlanFits, PlaceFits
    <2>3. AppendFits'
      BY <1>1, <1>2, <1>5, <2>1 DEF AppendFits
    <2> QED BY <1>3, <1>4, <2>2, <2>3 DEF Phases
  <1>7. CASE ~Appending
    <2>1. profile.mode = "snapshot" /\ p = 0
      BY <1>7 DEF PlanSingle, Target, Appending
    <2>2. Kept = {} /\ Reference = RowsOf(frame) /\ Untouched = {}
      BY <1>2, <2>1 DEF Kept, Reference, Untouched
    <2>3. PlannedPlaces' = {0}
      BY <1>1, <1>2 DEF PlannedPlaces
    <2>4. PlanFits'
      BY <1>1, <1>2, <1>5, <1>7, <2>1, <2>2, <2>3 DEF PlanFits, At
    <2>5. \A q \in Place : disk[q] = At(before, q) /\ (q # 0 => disk[q] = {})
      BY <1>2, <1>7, DatasetByPlace, NotPartitioned DEF TypeOK, Phases, InPlace
    <2>6. \A q \in Place : Safe(q)'
      BY <1>1, <2>5 DEF Safe, At
    <2>7. PlaceFits'
      BY <1>1, <1>5, <2>1, <2>3, <2>5, <2>6 DEF PlaceFits
    <2>8. AppendFits'
      BY <1>1, <1>7 DEF AppendFits
    <2> QED BY <1>3, <1>4, <2>4, <2>7, <2>8 DEF Phases
  <1> QED BY <1>6, <1>7

LEMMA PlanMergeStep == ASSUME TypeOK, Phases, PlanMerge PROVE Phases'
  <1> USE DEF callVars, fileVars, parquetVars
  <1>1. /\ disk' = disk /\ Dataset' = Dataset /\ Reference' = Reference
        /\ Appending' = Appending /\ Partitioned' = Partitioned /\ Overwriting' = Overwriting
        /\ Kept' = Kept /\ Untouched' = Untouched /\ before' = before
        /\ \A r : PlaceOf(r)' = PlaceOf(r)
    BY SameCall DEF PlanMerge, Dataset
  <1>2. Dataset = before /\ ~Appending /\ profile.mode \in Mode
    BY ProfileFacts DEF PlanMerge, TypeOK, Appending, Phases, CallFits
  <1>3. InPlace'
    BY <1>1 DEF Phases, InPlace
  <1>4. PICK error \in BOOLEAN :
          LET existing == IF error THEN {} ELSE Dataset
          IN  /\ error => Dataset # {} /\ profile.mode # "overwrite_partition"
              /\ unread' = error
              /\ merged' = Merge(existing, frame)
              /\ toRemove' = RangePartitions(frame) \cup Stale(existing, frame)
              /\ toWrite' = IF Partitioned THEN Places(merged') ELSE {0}
    BY DEF PlanMerge
  <1>5. pc' = "remove" /\ left' = left /\ exports' = exports /\ result' = result /\ frame' = frame
    BY DEF PlanMerge
  <1>6. CallFits'
    BY <1>5, <1>1 DEF PlanMerge, CallFits, Phases, TypeOK
  <1>7. PlannedPlaces' = toWrite'
    <2>1. Places(merged)' = Places(merged')
      BY <1>1 DEF Places
    <2> QED BY <1>1, <1>4, <2>1 DEF PlannedPlaces
  <1>8. ~unread' => /\ merged' = Merge(before, frame)
                    /\ toRemove' = RangePartitions(frame) \cup Stale(before, frame)
    BY <1>2, <1>4
  <1>9. RowsOf(frame)' = RowsOf(frame)
    BY <1>5 DEF RowsOf
  <1>10. profile.mode # "snapshot" /\ profile.mode # "append"
    BY DEF PlanMerge
  <1>11. ~unread' => Reference = merged' \cup Untouched
    BY <1>8, <1>10, MergeIsReference DEF TypeOK
  <1>12. Overwriting => merged' = RowsOf(frame) /\ ~unread'
    BY <1>4 DEF Overwriting, Merge
  <1>13. ~Partitioned \/ Overwriting => toRemove' = {}
    BY <1>4 DEF RangePartitions, Stale, Overwriting, Partitioned
  <1>14. ASSUME ~unread', NEW q \in toRemove' PROVE At(Kept, q) = {}
    <2>1. CASE q \in RangePartitions(frame)
      <3>1. profile.mode = "replace_range" /\ profile.partitionBy = "date" /\ InRange(q, frame)
        BY <2>1 DEF RangePartitions
      <3>2. \A r \in Kept : ~InRange(r.date, frame)
        BY <3>1 DEF Kept, KeptByRange
      <3>3. \A r : PlaceOf(r) = r.date
        BY <3>1 DEF PlaceOf
      <3> QED BY <3>1, <3>2, <3>3 DEF At
    <2>2. CASE q \in Stale(before, frame)
      <3>1. profile.mode \in {"upsert_by_key", "replace_range"} /\ q \notin Places(Merge(before, frame))
        BY <2>2 DEF Stale
      <3>2. Kept \subseteq Merge(before, frame)
        BY <3>1 DEF Kept, Merge
      <3> QED BY <3>1, <3>2 DEF At, Places
    <2> QED BY <1>8, <1>14, <2>1, <2>2
  <1>15. PlanFits'
    <2>1. ~unread' => (\A q \in toRemove : At(Kept, q) = {})'
      <3>1. \A q : At(Kept, q)' = At(Kept, q)
        BY <1>1 DEF At
      <3> QED BY <1>14, <3>1
    <2> QED BY <1>1, <1>2, <1>5, <1>7, <1>9, <1>11, <1>12, <1>13, <2>1 DEF PlanFits
  <1>16. \A q \in Place : disk[q] = At(before, q)
    BY <1>2, DatasetByPlace DEF TypeOK, Phases
  <1>17. \A q \in Place : Safe(q)'
    BY <1>1, <1>16 DEF Safe, At
  <1>18. ASSUME ~unread', NEW q \in Place, q \notin toWrite', ~Overwriting, disk[q] # {}
         PROVE  q \in toRemove'
    <2>1. CASE Partitioned
      <3>1. profile.mode \in {"upsert_by_key", "replace_range"}
        BY <1>2, <1>10, <1>18 DEF Mode, Overwriting
      <3>2. q \in Places(before) \ Places(Merge(before, frame))
        BY <1>4, <1>8, <1>16, <1>18, <2>1 DEF At, Places
      <3> QED BY <1>8, <1>18, <2>1, <3>1, <3>2 DEF Stale
    <2>2. CASE ~Partitioned
      BY <1>2, <1>4, <1>18, <2>2, NotPartitioned DEF Phases, InPlace, TypeOK
    <2> QED BY <2>1, <2>2
  <1>19. PlaceFits'
    BY <1>1, <1>5, <1>7, <1>17, <1>18 DEF PlaceFits
  <1>20. AppendFits'
    BY <1>1, <1>2 DEF AppendFits
  <1> QED BY <1>3, <1>6, <1>15, <1>19, <1>20 DEF Phases

LEMMA RemovePartitionStep == ASSUME TypeOK, Phases, NEW p \in Place, RemovePartition(p) PROVE Phases'
  <1> USE DEF callVars
  <1>1. /\ Reference' = Reference
        /\ Appending' = Appending /\ Partitioned' = Partitioned /\ Overwriting' = Overwriting
        /\ Kept' = Kept /\ Untouched' = Untouched /\ before' = before
        /\ \A r : PlaceOf(r)' = PlaceOf(r)
    BY SameCall DEF RemovePartition
  <1>2. /\ pc = "remove" /\ pc' = "remove" /\ p \in toRemove /\ toRemove' = toRemove \ {p}
        /\ UNCHANGED <<exports, left, merged, toWrite, unread, result, profile, frame>>
        /\ disk' = [disk EXCEPT ![p] = {}] /\ disk \in [Place -> SUBSET Row]
    BY DEF RemovePartition, Remove, TypeOK
  <1>3. PlannedPlaces' = PlannedPlaces /\ RowsOf(frame)' = RowsOf(frame)
    BY <1>1, <1>2 DEF PlannedPlaces, Places, RowsOf
  <1>4. \A rows, q : At(rows, q)' = At(rows, q)
    BY <1>1 DEF At
  <1>5. toWrite = PlannedPlaces /\ ~Appending /\ Partitioned /\ ~Overwriting
    BY <1>2 DEF Phases, PlanFits
  <1>6. InPlace'
    BY <1>1, <1>2 DEF Phases, InPlace
  <1>7. CallFits'
    BY <1>2 DEF Phases, CallFits
  <1>8. PlanFits'
    <2>1. ~unread' => (\A q \in toRemove : At(Kept, q) = {})'
      <3>1. \A q : At(Kept, q)' = At(Kept, q)
        BY <1>1 DEF At
      <3> QED BY <1>2, <3>1 DEF Phases, PlanFits
    <2> QED BY <1>1, <1>2, <1>3, <1>5, <2>1 DEF Phases, PlanFits
  <1>9. ASSUME ~unread, NEW q \in Place
        PROVE  Safe(q)' /\ (q \notin PlannedPlaces => disk'[q] = {} \/ q \in toRemove')
    <2>1. At(before, q)' = At(before, q) /\ At(Kept, q)' = At(Kept, q)
      BY <1>1 DEF At
    <2>2. Safe(q) /\ (q \notin PlannedPlaces => disk[q] = {} \/ q \in toRemove)
      BY <1>2, <1>5, <1>9 DEF Phases, PlaceFits, Cleared
    <2>3. q = p => At(Kept, q) = {}
      BY <1>2, <1>9 DEF Phases, PlanFits
    <2> QED BY <1>1, <1>2, <1>5, <2>1, <2>2, <2>3 DEF Safe
  <1>10. PlaceFits'
    BY <1>1, <1>2, <1>3, <1>5, <1>9 DEF PlaceFits
  <1>11. AppendFits'
    BY <1>1, <1>5 DEF AppendFits
  <1> QED BY <1>6, <1>7, <1>8, <1>10, <1>11 DEF Phases

LEMMA RemovalsDoneStep == ASSUME TypeOK, Phases, RemovalsDone PROVE Phases'
  <1> USE DEF callVars, fileVars, parquetVars, planVars
  <1>1. /\ Reference' = Reference /\ Dataset' = Dataset
        /\ Appending' = Appending /\ Partitioned' = Partitioned /\ Overwriting' = Overwriting
        /\ Kept' = Kept /\ Untouched' = Untouched /\ before' = before
        /\ \A r : PlaceOf(r)' = PlaceOf(r)
    BY SameCall DEF RemovalsDone, Dataset
  <1>2. /\ pc = "remove" /\ pc' = (IF Partitioned THEN "clear" ELSE "replace") /\ toRemove = {}
        /\ UNCHANGED <<exports, left, merged, toRemove, toWrite, unread, result, profile, frame, disk>>
    BY DEF RemovalsDone
  <1>3. PlannedPlaces' = PlannedPlaces /\ RowsOf(frame)' = RowsOf(frame)
    BY <1>1, <1>2 DEF PlannedPlaces, Places, RowsOf
  <1>4. toWrite = PlannedPlaces /\ ~Appending
    BY <1>2 DEF Phases, PlanFits
  <1>5. InPlace'
    BY <1>1, <1>2 DEF Phases, InPlace
  <1>6. CallFits'
    BY <1>2 DEF Phases, CallFits
  <1>7. PlanFits'
    BY <1>1, <1>2, <1>3, <1>4 DEF Phases, PlanFits
  <1>8. ASSUME ~unread, NEW q \in Place PROVE Safe(q)' /\ (q \notin PlannedPlaces /\ ~Overwriting => disk[q] = {})
    <2>1. At(before, q)' = At(before, q) /\ At(Kept, q)' = At(Kept, q)
      BY <1>1 DEF At
    <2>2. Safe(q) /\ (q \notin PlannedPlaces /\ ~Overwriting => disk[q] = {})
      BY <1>2, <1>4, <1>8 DEF Phases, PlaceFits, Cleared
    <2> QED BY <1>1, <1>2, <2>1, <2>2 DEF Safe
  <1>9. PlaceFits'
    BY <1>1, <1>2, <1>3, <1>4, <1>8 DEF PlaceFits
  <1>10. AppendFits'
    BY <1>1, <1>4 DEF AppendFits
  <1> QED BY <1>5, <1>6, <1>7, <1>9, <1>10 DEF Phases

LEMMA ClearPartitionStep == ASSUME TypeOK, Phases, NEW p \in Place, ClearPartition(p) PROVE Phases'
  <1> USE DEF callVars, planVars
  <1>1. /\ Reference' = Reference
        /\ Appending' = Appending /\ Partitioned' = Partitioned /\ Overwriting' = Overwriting
        /\ Kept' = Kept /\ Untouched' = Untouched /\ before' = before
        /\ \A r : PlaceOf(r)' = PlaceOf(r)
    BY SameCall DEF ClearPartition
  <1>2. /\ pc = "clear" /\ pc' = "replace" /\ IsNext(p)
        /\ UNCHANGED <<exports, left, merged, toRemove, toWrite, unread, result, profile, frame>>
        /\ disk' = [disk EXCEPT ![p] = {}] /\ disk \in [Place -> SUBSET Row]
    BY DEF ClearPartition, Remove, TypeOK
  <1>3. PlannedPlaces' = PlannedPlaces /\ RowsOf(frame)' = RowsOf(frame) /\ IsNext(p)'
    BY <1>1, <1>2 DEF PlannedPlaces, Places, RowsOf, IsNext
  <1>4. Partitioned /\ toRemove = {} /\ ~Appending /\ p \in PlannedPlaces
    <2>1. Partitioned /\ toRemove = {}
      BY <1>2 DEF Phases, PlanFits, CallFits
    <2>2. ~Appending
      BY <2>1, ProfileFacts DEF TypeOK, Appending
    <2> QED BY <1>2, <2>1, <2>2 DEF Phases, PlanFits, IsNext
  <1>5. InPlace'
    BY <1>1, <1>2 DEF Phases, InPlace
  <1>6. CallFits'
    BY <1>2 DEF Phases, CallFits
  <1>7. PlanFits'
    BY <1>1, <1>2, <1>3, <1>4 DEF Phases, PlanFits
  <1>8. ASSUME ~unread, NEW q \in Place, q # p
        PROVE  /\ Safe(q) => Safe(q)'
               /\ q \in toWrite => Safe(q)
    <2>1. At(before, q)' = At(before, q) /\ At(Kept, q)' = At(Kept, q)
      BY <1>1 DEF At
    <2>2. q \in toWrite => Safe(q)
      BY <1>2, <1>4, <1>8 DEF Phases, PlaceFits, Cleared
    <2> QED BY <1>1, <1>2, <1>8, <2>1, <2>2 DEF Safe
  <1>9. Cleared(p)'
    BY <1>1, <1>2, <1>3, <1>4 DEF Cleared
  <1>10. \A q : At(merged, q)' = At(merged, q)
    BY <1>1, <1>2 DEF At
  <1>11. p \in toWrite
    BY <1>2 DEF IsNext
  <1>12. ASSUME ~unread, NEW q \in Place
         PROVE  /\ q \in toWrite => Cleared(q)' \/ Safe(q)'
                /\ q \in PlannedPlaces \ toWrite => disk'[q] = At(merged, q)
                /\ q \notin PlannedPlaces => Safe(q)' /\ (~Overwriting => disk'[q] = {})
    <2>1. CASE q = p
      BY <1>4, <1>9, <1>11, <2>1
    <2>2. CASE q # p
      BY <1>2, <1>4, <1>8, <1>12, <2>2 DEF Phases, PlaceFits
    <2> QED BY <2>1, <2>2
  <1>13. PlaceFits'
    BY <1>1, <1>2, <1>3, <1>10, <1>12 DEF PlaceFits
  <1>14. AppendFits'
    BY <1>1, <1>4 DEF AppendFits
  <1> QED BY <1>5, <1>6, <1>7, <1>13, <1>14 DEF Phases

LEMMA ReplaceFileStep == ASSUME TypeOK, Phases, NEW p \in Place, ReplaceFile(p) PROVE Phases'
  <1> USE DEF callVars
  <1>1. /\ Reference' = Reference
        /\ Appending' = Appending /\ Partitioned' = Partitioned /\ Overwriting' = Overwriting
        /\ Kept' = Kept /\ Untouched' = Untouched /\ before' = before
        /\ \A r : PlaceOf(r)' = PlaceOf(r)
    BY SameCall DEF ReplaceFile
  <1>2. /\ pc = "replace" /\ pc' = (IF Partitioned THEN "clear" ELSE "written") /\ IsNext(p)
        /\ toWrite' = toWrite \ {p}
        /\ UNCHANGED <<exports, left, merged, toRemove, unread, result, profile, frame>>
        /\ disk' = [disk EXCEPT ![p] = RowsFor(p)] /\ disk \in [Place -> SUBSET Row]
    BY DEF ReplaceFile, TypeOK
  <1>3. PlannedPlaces' = PlannedPlaces /\ RowsOf(frame)' = RowsOf(frame)
    BY <1>1, <1>2 DEF PlannedPlaces, Places, RowsOf
  <1>4. p \in toWrite /\ toRemove = {} /\ (~Appending => toWrite \subseteq PlannedPlaces)
    BY <1>2 DEF Phases, PlanFits, CallFits, IsNext
  <1>5. ~Appending => RowsFor(p) = At(merged, p) /\ (~Partitioned => p = 0)
    <2>1. CASE Partitioned
      BY <2>1 DEF RowsFor, At
    <2>2. CASE ~Partitioned
      BY <1>4, <2>2, NotPartitioned DEF RowsFor, At, PlannedPlaces, TypeOK
    <2> QED BY <2>1, <2>2
  <1>6. InPlace'
    BY <1>1, <1>2, <1>5 DEF Phases, InPlace, At
  <1>7. CallFits'
    BY <1>2, <1>4 DEF Phases, CallFits
  <1>8. PlanFits'
    <2>1. ~Partitioned /\ ~Appending => toWrite' = {}
      BY <1>2, <1>4, <1>5 DEF PlannedPlaces
    <2> QED BY <1>1, <1>2, <1>3, <1>4, <2>1 DEF Phases, PlanFits
  <1>9. ASSUME ~unread, ~Appending, NEW q \in Place, q # p
        PROVE  /\ Safe(q) => Safe(q)'
               /\ q \in toWrite => Safe(q)
    <2>1. At(before, q)' = At(before, q) /\ At(Kept, q)' = At(Kept, q)
      BY <1>1 DEF At
    <2>2. ~Cleared(q) \/ q \notin toWrite
      BY <1>2, <1>9, WriterAssumption DEF Cleared, IsNext
    <2>3. q \in toWrite => Safe(q)
      BY <1>2, <1>9, <2>2 DEF Phases, PlaceFits
    <2> QED BY <1>1, <1>2, <1>9, <2>1, <2>3 DEF Safe
  <1>10. \A q : At(merged, q)' = At(merged, q)
    BY <1>1, <1>2 DEF At
  <1>11. ASSUME ~unread, ~Appending, NEW q \in Place
         PROVE  /\ q \in toWrite' => Safe(q)'
                /\ q \in PlannedPlaces \ toWrite' => disk'[q] = At(merged, q)
                /\ q \notin PlannedPlaces => Safe(q)' /\ (~Overwriting => disk'[q] = {})
    <2>1. CASE q = p
      BY <1>2, <1>4, <1>5, <1>11, <2>1
    <2>2. CASE q # p
      BY <1>2, <1>9, <1>11, <2>2 DEF Phases, PlaceFits
    <2> QED BY <2>1, <2>2
  <1>12. PlaceFits'
    BY <1>1, <1>2, <1>3, <1>10, <1>11 DEF PlaceFits
  <1>13. AppendFits'
    <2>1. CASE Appending
      <3>1. ~Partitioned /\ ~unread /\ Dataset = before /\ disk[p] = {}
        BY <1>2, <1>4, <2>1, ProfileFacts DEF TypeOK, Appending, Phases, AppendFits
      <3>2. RowsFor(p) = merged
        BY <3>1 DEF RowsFor
      <3>3. Dataset' = Dataset \cup merged
        <4>1. \A q \in Place : disk'[q] = IF q = p THEN merged ELSE disk[q]
          BY <1>2, <3>2
        <4> QED BY <3>1, <4>1 DEF Dataset
      <3> QED BY <1>1, <1>2, <3>1, <3>3 DEF AppendFits
    <2>2. CASE ~Appending
      BY <1>1, <2>2 DEF AppendFits
    <2> QED BY <2>1, <2>2
  <1> QED BY <1>6, <1>7, <1>8, <1>12, <1>13 DEF Phases

LEMMA ParquetDoneStep == ASSUME TypeOK, Phases, ParquetDone PROVE Phases'
  <1> USE DEF callVars, fileVars, parquetVars, planVars
  <1>1. Reference' = Reference /\ Dataset' = Dataset /\ Appending' = Appending /\ \A r : PlaceOf(r)' = PlaceOf(r)
    BY SameCall DEF ParquetDone, Dataset
  <1>2. /\ pc \in {"clear", "written"} /\ pc' = "format" /\ left' = left \ {"parquet"}
        /\ pc = "clear" => toWrite = {}
        /\ UNCHANGED <<exports, merged, toRemove, toWrite, unread, result, profile, frame, disk, before>>
    BY DEF ParquetDone
  <1>3. ASSUME ~unread PROVE Dataset = Reference
    <2>1. CASE Appending
      <3>1. ~Partitioned /\ Reference = before \cup RowsOf(frame)
        BY <2>1, ProfileFacts DEF Appending, Reference, Kept, TypeOK
      <3>2. pc = "written" /\ merged = RowsOf(frame)
        BY <1>2, <1>3, <2>1, <3>1 DEF Phases, PlanFits
      <3> QED BY <2>1, <3>1, <3>2 DEF Phases, AppendFits
    <2>2. CASE ~Appending
      <3>1. toWrite = {} /\ Reference = merged \cup Untouched
        BY <1>2, <1>3, <2>2 DEF Phases, PlanFits
      <3>2. \A q \in Place : q \in PlannedPlaces => disk[q] = At(merged, q)
        BY <1>2, <1>3, <2>2, <3>1 DEF Phases, PlaceFits
      <3>3. CASE ~Overwriting
        <4>1. \A q \in Place : q \notin PlannedPlaces => disk[q] = {}
          BY <1>2, <1>3, <2>2, <3>3 DEF Phases, PlaceFits
        <4>2. Dataset = merged
          BY <3>2, <4>1, MergedByPlace DEF Dataset, TypeOK
        <4> QED BY <3>1, <3>3, <4>2 DEF Untouched
      <3>4. CASE Overwriting
        <4>1. Partitioned /\ merged = RowsOf(frame)
          BY <1>2, <3>4, ProfileFacts DEF Phases, PlanFits, TypeOK
        <4>2. \A q \in Place : q \notin PlannedPlaces => disk[q] = At(before, q)
          BY <1>2, <1>3, <2>2, <3>4 DEF Phases, PlaceFits, Safe
        <4>3. \A r \in before : PlaceOf(r) \in Place
          BY PlaceOfRow DEF TypeOK
        <4>4. Untouched = {r \in before : PlaceOf(r) \notin PlannedPlaces}
          BY <3>4, <4>1 DEF Untouched, PlannedPlaces
        <4>5. ASSUME NEW r PROVE r \in Dataset <=> r \in merged \/ r \in Untouched
          <5>1. r \in Dataset <=> \E q \in Place : r \in disk[q]
            BY DEF Dataset
          <5>2. (\E q \in Place : q \in PlannedPlaces /\ r \in disk[q]) <=> r \in merged
            BY <3>2, MergedByPlace DEF TypeOK
          <5>3. (\E q \in Place : q \notin PlannedPlaces /\ r \in disk[q]) <=> r \in Untouched
            BY <4>2, <4>3, <4>4 DEF At
          <5> QED BY <5>1, <5>2, <5>3
        <4> QED BY <3>1, <4>5
      <3> QED BY <3>3, <3>4
    <2> QED BY <2>1, <2>2
  <1>4. InPlace'
    BY <1>1, <1>2 DEF Phases, InPlace
  <1>5. CallFits'
    BY <1>1, <1>2, <1>3 DEF Phases, CallFits, TypeOK
  <1>6. PlanFits' /\ PlaceFits' /\ AppendFits'
    BY <1>2 DEF PlanFits, PlaceFits, AppendFits
  <1> QED BY <1>4, <1>5, <1>6 DEF Phases

LEMMA EndStep == ASSUME TypeOK, Phases, WriteLog \/ Fail PROVE Phases'
  <1> USE DEF callVars, fileVars, parquetVars, planVars
  <1>1. pc' = "idle" /\ disk' = disk /\ profile' = profile
    BY DEF WriteLog, Fail
  <1>2. InPlace'
    BY <1>1 DEF Phases, InPlace, Appending, PlaceOf
  <1>3. CallFits' /\ PlanFits' /\ PlaceFits' /\ AppendFits'
    BY <1>1 DEF CallFits, PlanFits, PlaceFits, AppendFits
  <1> QED BY <1>2, <1>3 DEF Phases

LEMMA StutterStep == ASSUME Phases, UNCHANGED vars PROVE Phases'
  <1> USE DEF vars, callVars, fileVars, parquetVars, planVars
  <1>1. /\ Reference' = Reference /\ Dataset' = Dataset
        /\ Appending' = Appending /\ Partitioned' = Partitioned /\ Overwriting' = Overwriting
        /\ Kept' = Kept /\ Untouched' = Untouched
        /\ \A r : PlaceOf(r)' = PlaceOf(r)
    BY SameCall DEF Dataset
  <1>2. PlannedPlaces' = PlannedPlaces /\ RowsOf(frame)' = RowsOf(frame)
    BY <1>1 DEF PlannedPlaces, Places, RowsOf
  <1>3. \A q : /\ At(before, q)' = At(before, q) /\ At(Kept, q)' = At(Kept, q) /\ At(merged, q)' = At(merged, q)
               /\ Cleared(q)' = Cleared(q)
    BY <1>1 DEF At, Cleared, IsNext
  <1>4. \A q : Safe(q)' = Safe(q)
    BY <1>1, <1>3 DEF Safe
  <1> QED BY <1>1, <1>2, <1>3, <1>4 DEF Phases, InPlace, CallFits, PlanFits, PlaceFits, AppendFits

-----------------------------------------------------------------------------
(* The invariant. *)

LEMMA PhasesStep == TypeOK /\ Phases /\ [Next]_vars => Phases'
  BY BeginStep, WriteExportStep, PlanSingleStep, PlanMergeStep, RemovePartitionStep, RemovalsDoneStep,
     ClearPartitionStep, ReplaceFileStep, ParquetDoneStep, EndStep, StutterStep DEF Next

LEMMA PhasesInit == Init => Phases
  BY DEF Init, Phases, InPlace, CallFits, PlanFits, PlaceFits, AppendFits

LEMMA InductiveInvariant == Spec => [](TypeOK /\ Phases)
  BY TypeInit, TypeStep, PhasesInit, PhasesStep, PTL DEF Spec

\* A step that ends a call, or that is none, leaves its dataset alone.
LEMMA PromiseAtRest ==
    ASSUME Promise, UNCHANGED <<profile, frame, before, disk, unread>>
    PROVE  Promise'
  <1>1. /\ Reference' = Reference /\ Dataset' = Dataset /\ Kept' = Kept /\ Partitioned' = Partitioned
        /\ \A r : PlaceOf(r)' = PlaceOf(r)
    BY SameCall DEF Dataset
  <1> QED BY <1>1 DEF Promise, SingleFileIsAtomic, OnePartitionAtRisk

Writing == pc # "idle"

LEMMA PromiseStep == Promise /\ [Next]_vars => Promise' \/ Writing'
  <1> SUFFICES ASSUME Promise, [Next]_vars, pc' = "idle" PROVE Promise'
    BY DEF Writing
  <1>1. UNCHANGED <<profile, frame, before, disk, unread>>
    BY DEF Next, Begin, WriteExport, PlanSingle, PlanMerge, RemovePartition, RemovalsDone, ClearPartition,
           ReplaceFile, ParquetDone, WriteLog, Fail, vars, callVars, fileVars, parquetVars, planVars
  <1> QED BY <1>1, PromiseAtRest

LEMMA PromiseInit == Init => Promise
  <1> SUFFICES ASSUME Init PROVE Promise
    OBVIOUS
  <1>1. Dataset = {} /\ before = {} /\ profile \in Profiles
    BY DEF Init, Dataset
  <1>2. Kept = {} /\ 0 \in Place
    BY <1>1, KeptIsOld, ProfileFacts, WriterAssumption
  <1> QED BY <1>1, <1>2 DEF Promise, SingleFileIsAtomic, OnePartitionAtRisk

LEMMA PromiseHolds == Spec => []Promise
  <1>1. TypeOK /\ Phases /\ Writing => Promise
    BY PhasePromise DEF Phases, Writing
  <1> QED BY <1>1, PromiseStep, InductiveInvariant, PromiseInit, PTL DEF Spec

\* Wherever a write stops, a dataset in one file is the old or the new one.
THEOREM OneFileIsReplacedAtOnce == Spec => []SingleFileIsAtomic
  <1>1. Promise => SingleFileIsAtomic
    BY DEF Promise
  <1> QED BY <1>1, PromiseHolds, PTL

\* Wherever a write stops, the kept rows that are missing are of one partition.
THEOREM AtMostOnePartitionIsLost == Spec => []OnePartitionAtRisk
  <1>1. Promise => OnePartitionAtRisk
    BY DEF Promise
  <1> QED BY <1>1, PromiseHolds, PTL

LEMMA SuccessStep == TypeOK /\ Phases /\ SuccessIsComplete /\ [Next]_vars => SuccessIsComplete'
  <1> SUFFICES ASSUME TypeOK, Phases, SuccessIsComplete, [Next]_vars, result' = "done" PROVE SuccessIsComplete'
    BY DEF SuccessIsComplete
  <1> USE DEF callVars, fileVars, parquetVars, planVars
  <1>1. CASE WriteLog
    <2>1. Reference' = Reference /\ Dataset' = Dataset
      BY <1>1, SameCall DEF WriteLog, Dataset
    <2>2. /\ pc = "format" /\ left = {} /\ log' = frame
          /\ UNCHANGED <<profile, frame, exports, unread>>
      BY <1>1 DEF WriteLog
    <2>3. "parquet" \in profile.formats /\ ~unread => Dataset = Reference
      BY <2>2 DEF Phases, CallFits
    <2>4. \A e \in DOMAIN exports : exports[e] = frame
      BY <2>2 DEF Phases, CallFits
    <2> QED BY <2>1, <2>2, <2>3, <2>4 DEF SuccessIsComplete
  <1>2. CASE UNCHANGED vars
    <2>1. Reference' = Reference /\ Dataset' = Dataset
      BY <1>2, SameCall DEF vars, Dataset
    <2> QED BY <1>2, <2>1 DEF vars, SuccessIsComplete
  <1>3. ASSUME ~WriteLog, Next PROVE FALSE
    BY <1>3 DEF Next, Begin, WriteExport, PlanSingle, PlanMerge, RemovePartition, RemovalsDone, ClearPartition,
                ReplaceFile, ParquetDone, Fail, Phases, CallFits
  <1> QED BY <1>1, <1>2, <1>3

\* A run is logged as a success only when the dataset and every file are what
\* its mode is to make of the rows before and the new ones.
THEOREM LoggedSuccessIsComplete == Spec => []SuccessIsComplete
  <1>1. Init => SuccessIsComplete
    BY DEF Init, SuccessIsComplete
  <1> QED BY <1>1, SuccessStep, InductiveInvariant, PTL DEF Spec
=============================================================================
