----------------------------- MODULE Retention -----------------------------
(***************************************************************************)
(* src/services/maintenance/retention.ts: the statements of a cleanup, each*)
(* repeated in batches, while other statements go on: rows age, workers    *)
(* that have outlived their cluster add rows and finish their runs.  Lots  *)
(* do not come or go meanwhile, the locks see to that.                     *)
(*                                                                         *)
(* A row is old when it is past the retention of its table; it is loose    *)
(* when its lot is gone (images, attempts) or its run is over (runs; old   *)
(* then counts from finished_at).                                          *)
(***************************************************************************)
EXTENDS Integers, Sequences, FiniteSets

CONSTANTS
  RowId,        \* rows that are or may come
  BatchSize     \* env.maintenance.batchSize

ASSUME RetentionAssumption == BatchSize \in Nat \ {0} /\ IsFiniteSet(RowId)

VARIABLES
  table,      \* the table of each row
  row,        \* each row, Absent when it is not there
  enabled,         \* the steps the configuration switches on
  step        \* the step of the cleanup, 0 before and 8 after it

retainVars == <<table, row, enabled, step>>

Steps == <<"orphanImages", "orphanAttempts", "oldAttempts", "invalidRows",
           "ingestRuns", "photoRuns", "clusterRuns">>
TableOf(s) ==
  CASE s = "orphanImages" -> "lot_images"
    [] s \in {"orphanAttempts", "oldAttempts"} -> "photo_fetch_attempts"
    [] s = "invalidRows" -> "invalid_csv_rows"
    [] s = "ingestRuns" -> "ingest_runs"
    [] s = "photoRuns" -> "photo_runs"
    [] s = "clusterRuns" -> "photo_cluster_runs"
Tables == {TableOf(Steps[i]) : i \in 1..Len(Steps)}
Runs == {"ingest_runs", "photo_runs", "photo_cluster_runs"}

Media == {"lot_images", "photo_fetch_attempts"}
Absent == {"absent"}
RowState(t) ==
  {v \in SUBSET {"old", "loose"} :
     /\ "loose" \in v => t \in Media \cup Runs
     /\ "old" \in v /\ t \in Runs => "loose" \in v}

\* The rows of one table; some of them are there already.
RetainInit ==
  /\ \E t \in Tables :
       /\ table = [r \in RowId |-> t]
       /\ row \in [RowId -> RowState(t) \cup {Absent}]
  /\ enabled \in {{Steps[i] : i \in 1..Len(Steps)}, {"orphanAttempts"}}
  /\ step = 0

\* The WHERE of each statement; in a row of a run that goes on finished_at is
\* null, so it is never old.
Due(s) ==
  {r \in RowId :
     /\ table[r] = TableOf(s) /\ row[r] # Absent
     /\ (IF s \in {"orphanImages", "orphanAttempts"} THEN "loose" ELSE "old") \in row[r]
     /\ table[r] \in Runs => "loose" \in row[r]}

\* The steps that are switched off are passed over.
NextStep(i) ==
  LET rest == {j \in (i + 1)..Len(Steps) : Steps[j] \in enabled} IN
  IF rest = {} THEN 8 ELSE CHOOSE j \in rest : \A k \in rest : j <= k

StartCleanup ==
  /\ step = 0
  /\ step' = NextStep(0)
  /\ UNCHANGED <<table, row, enabled>>

Smaller(m, n) == IF m < n THEN m ELSE n

\* Mutant of Repeats: a full batch is taken for the last one.
RepeatsNever(n) == n > BatchSize

\* deleteInBatches goes on while a batch is full.
Repeats(n) == n >= BatchSize

\* One DELETE ... LIMIT.
DeleteBatch ==
  /\ step \in 1..Len(Steps)
  /\ \E gone \in SUBSET Due(Steps[step]) :
       /\ Cardinality(gone) = Smaller(BatchSize, Cardinality(Due(Steps[step])))
       /\ row' = [r \in RowId |-> IF r \in gone THEN Absent ELSE row[r]]
       /\ step' = IF Repeats(Cardinality(gone)) THEN step ELSE NextStep(step)
  /\ UNCHANGED <<table, enabled>>

\* A worker that has outlived its cluster may add rows for a lot that is gone.
AddRow(r) ==
  /\ row[r] = Absent
  /\ \E v \in {{}} \cup (IF table[r] \in Media THEN {{"loose"}} ELSE {}) :
       row' = [row EXCEPT ![r] = v]
  /\ UNCHANGED <<table, enabled, step>>

\* Time passes.
AgeRow(r) ==
  /\ row[r] # Absent /\ "old" \notin row[r]
  /\ table[r] \in Runs => "loose" \in row[r]
  /\ row' = [row EXCEPT ![r] = @ \cup {"old"}]
  /\ UNCHANGED <<table, enabled, step>>

FinishRun(r) ==
  /\ row[r] # Absent /\ "loose" \notin row[r] /\ table[r] \in Runs
  /\ row' = [row EXCEPT ![r] = @ \cup {"loose"}]
  /\ UNCHANGED <<table, enabled, step>>

RetainNext ==
  \/ StartCleanup \/ DeleteBatch
  \/ \E r \in RowId : AddRow(r) \/ AgeRow(r) \/ FinishRun(r)

RetainSpec == RetainInit /\ [][RetainNext]_retainVars

-----------------------------------------------------------------------------
(* Properties. *)

RetainTypeOK ==
  /\ table \in [RowId -> Tables]
  /\ \A r \in RowId : row[r] \in RowState(table[r]) \cup {Absent}
  /\ enabled \subseteq {Steps[i] : i \in 1..Len(Steps)}
  /\ step \in 0..8

\* When the cleanup goes on to its next statement, nothing is left of what the
\* statement applies to, however many batches that took and whatever was added
\* or became old between two of them: no row waits for the next night
\* (retention.ts:38-45).
PassedIsClean ==
  [][\A i \in 1..Len(Steps) : step = i /\ step' # i => Due(Steps[i])' = {}]_retainVars
=============================================================================
