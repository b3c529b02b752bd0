----------------------------- MODULE LotIngest ------------------------------
(***************************************************************************)
(* services/ingest: the CSV snapshot ingest.  An attempt clears the stage  *)
(* table, streams the feed, upserts the valid rows in batches and stages   *)
(* their lot numbers, marks staged lots that have stored photos, and then  *)
(* deletes the lots that were not staged, with their images.  A failed     *)
(* attempt may be retried from the start; a crash may come anywhere.       *)
(*                                                                         *)
(* One ingest runs at a time: csv-ingest.ts:450 holds CSV_INGEST_LOCK for  *)
(* the whole call, and AppLocks says when that excludes a second one.      *)
(* Photo jobs run between ingests.  A row's payload is its image URL: two  *)
(* rows of a lot are equal when their URLs are.                            *)
(***************************************************************************)
EXTENDS Integers, Sequences, FiniteSets

CONSTANTS
  Lot,                \* lot numbers
  Url,                \* image URLs, and payloads with them
  Feeds,              \* the feeds a download may bring, sequences of rows
  BatchSize,          \* ingest.batchSize; one chunk per batch
  MaxRows,            \* ingest.maxRows, 0 for no limit
  Prune,              \* ingest.pruneMissingLots
  MaxInvalidRows,     \* ingest.pruneMaxInvalidRows
  MaxInvalidPercent,  \* ingest.pruneMaxInvalidPercent
  MaxAttempts,        \* ingest.executionRetries
  NoLot               \* no row of the table lots

\* A CSV line: the lot it is about, its URL, and whether it parses and maps.
Row == [lot : Lot, url : Url, ok : BOOLEAN]

LotRow == [url : Url, status : {"unknown", "ok", "missing"}]

ASSUME IngestAssumption ==
  /\ Feeds \subseteq Seq(Row)
  /\ BatchSize \in Nat \ {0} /\ MaxRows \in Nat /\ MaxAttempts \in Nat \ {0}
  /\ Prune \in BOOLEAN /\ MaxInvalidRows \in Nat /\ MaxInvalidPercent \in 0..100
  /\ NoLot \notin LotRow

VARIABLES
  lots,      \* copart_core.lots: url and photo_status of each lot
  stage,     \* ingest_lot_stage
  media,     \* lots with a good full-size image in copart_media.lot_images
  runRow,    \* status of the newest row of ingest_runs
  pc,        \* where the ingest is
  attempt,   \* of executeCsvIngestWithRetries
  feed,      \* the feed of this attempt
  pos,       \* rows read
  flushed,   \* rows of them upserted; the batch is what lies between
  limited,   \* maxRowsReached
  cause      \* why the attempt failed, "none" if it did not

vars == <<lots, stage, media, runRow, pc, attempt, feed, pos, flushed, limited, cause>>
tables == <<lots, stage, media, runRow>>
reader == <<feed, pos, flushed, limited>>

PCs == {"idle", "create", "clear", "read", "stage", "upsert", "hydrate", "prune",
        "orphans", "complete", "catch", "cleanup"}
Causes == {"none", "network", "db", "threshold", "gate"}

TypeOK ==
  /\ lots \in [Lot -> LotRow \cup {NoLot}]
  /\ stage \subseteq Lot /\ media \subseteq Lot
  /\ runRow \in {"none", "running", "success", "failed"}
  /\ pc \in PCs /\ attempt \in 1..MaxAttempts
  /\ feed \in Feeds \cup {<< >>}
  /\ flushed \in 0..pos /\ pos \in 0..Len(feed)
  /\ limited \in BOOLEAN /\ cause \in Causes

Init ==
  /\ lots = [l \in Lot |-> NoLot]
  /\ stage = {} /\ media = {}
  /\ runRow = "none" /\ pc = "idle" /\ attempt = 1
  /\ feed = << >> /\ pos = 0 /\ flushed = 0
  /\ limited = FALSE /\ cause = "none"

-----------------------------------------------------------------------------
Stored == {l \in Lot : lots[l] # NoLot}

\* The positions of the valid and of the invalid rows among the first k.
ValidAt(k) == {i \in 1..k : feed[i].ok}
InvalidAt(k) == {i \in 1..k : ~feed[i].ok}
LotsAt(I) == {feed[i].lot : i \in I}
Batch == ValidAt(pos) \ ValidAt(flushed)

\* Within a batch and from batch to batch the last row of a lot wins.
LastUrl(I, l) ==
  LET last == CHOOSE i \in I : feed[i].lot = l /\ \A j \in I : feed[j].lot = l => j <= i
  IN  feed[last].url

TooInvalid ==
  \/ Cardinality(InvalidAt(pos)) > MaxInvalidRows
  \/ Cardinality(InvalidAt(pos)) * 100 > MaxInvalidPercent * pos

\* isRetryableIngestError looks for network words in the message; that of the
\* threshold error says "prune aborted", and "aborted" is one of them.
Retryable(c) == c \in {"network", "threshold"}

\* The INSERT ... ON DUPLICATE KEY UPDATE of one batch.  A row that changes
\* nothing is skipped; a new URL makes the photo status unknown.
Upserted(l) ==
  IF l \notin LotsAt(Batch) THEN lots[l]
  ELSE LET url == LastUrl(Batch, l) IN
       IF lots[l] # NoLot /\ lots[l].url = url THEN lots[l]
       ELSE [url |-> url, status |-> "unknown"]

\* Mutant of Hydrated: the status is not joined with the stored images.
HydratedAll(l) ==
  IF l \in stage /\ lots[l] # NoLot THEN [lots[l] EXCEPT !.status = "ok"] ELSE lots[l]

\* hydrateInsertedLotsPhotoStatusFromMedia: every staged lot, new or not.
Hydrated(l) ==
  IF l \in stage \cap media /\ lots[l] # NoLot
  THEN [lots[l] EXCEPT !.status = "ok"]
  ELSE lots[l]

-----------------------------------------------------------------------------
Start ==
  /\ pc = "idle"
  /\ pc' = "create" /\ attempt' = 1 /\ cause' = "none"
  /\ UNCHANGED <<tables, reader>>

CreateRun ==
  /\ pc = "create"
  /\ pc' = "clear" /\ runRow' = "running"
  /\ UNCHANGED <<lots, stage, media, attempt, cause, reader>>

\* Mutant of ClearStage: what an earlier run left is kept.
KeepStage ==
  /\ pc = "clear"
  /\ \E f \in Feeds : feed' = f
  /\ pos' = 0 /\ flushed' = 0 /\ limited' = FALSE
  /\ pc' = "read"
  /\ UNCHANGED <<tables, attempt, cause>>

\* The stage is cleared and the download started.
ClearStage ==
  /\ pc = "clear"
  /\ stage' = {}
  /\ \E f \in Feeds : feed' = f
  /\ pos' = 0 /\ flushed' = 0 /\ limited' = FALSE
  /\ pc' = "read"
  /\ UNCHANGED <<lots, media, runRow, attempt, cause>>

AtLimit == feed[pos + 1].ok /\ MaxRows > 0 /\ Cardinality(ValidAt(pos)) >= MaxRows

ReadRow ==
  /\ pc = "read" /\ pos < Len(feed) /\ ~AtLimit
  /\ pos' = pos + 1
  /\ pc' = IF feed[pos + 1].ok /\ Cardinality(Batch) + 1 >= BatchSize
           THEN "stage" ELSE "read"
  /\ UNCHANGED <<tables, attempt, cause, feed, flushed, limited>>

\* The limit is met by the first valid row beyond it; that row is dropped.
StopReading ==
  /\ pc = "read"
  /\ \/ pos = Len(feed) /\ UNCHANGED limited
     \/ pos < Len(feed) /\ AtLimit /\ limited' = TRUE
  /\ pc' = "stage"
  /\ UNCHANGED <<tables, attempt, cause, feed, pos, flushed>>

StageLotNumbers ==
  /\ pc = "stage"
  /\ stage' = stage \cup LotsAt(Batch)
  /\ pc' = "upsert"
  /\ UNCHANGED <<lots, media, runRow, attempt, cause, reader>>

UpsertLotsBatch ==
  /\ pc = "upsert"
  /\ lots' = [l \in Lot |-> Upserted(l)]
  /\ flushed' = pos
  /\ pc' = IF limited \/ pos = Len(feed) THEN "hydrate" ELSE "read"
  /\ UNCHANGED <<stage, media, runRow, attempt, cause, feed, pos, limited>>

\* Mutant of Hydrate: a limited run goes on to prune.
HydrateAndPrune ==
  /\ pc = "hydrate"
  /\ lots' = [l \in Lot |-> Hydrated(l)]
  /\ IF Prune /\ TooInvalid
     THEN pc' = "catch" /\ cause' = "threshold"
     ELSE pc' = (IF Prune THEN "prune" ELSE "complete") /\ UNCHANGED cause
  /\ UNCHANGED <<stage, media, runRow, attempt, reader>>

\* Photo statuses are set from the stored images; then it is decided whether
\* the feed may delete lots.
Hydrate ==
  /\ pc = "hydrate"
  /\ lots' = [l \in Lot |-> Hydrated(l)]
  /\ \/ /\ ~Prune \/ limited
        /\ pc' = "complete" /\ UNCHANGED cause
     \/ /\ Prune /\ ~limited /\ TooInvalid
        /\ pc' = "catch" /\ cause' = "threshold"
     \/ /\ Prune /\ ~limited /\ ~TooInvalid
        /\ pc' = "prune" /\ UNCHANGED cause
  /\ UNCHANGED <<stage, media, runRow, attempt, reader>>

PruneMissingLots ==
  /\ pc = "prune"
  /\ lots' = [l \in Lot |-> IF l \in stage THEN lots[l] ELSE NoLot]
  /\ pc' = "orphans"
  /\ UNCHANGED <<stage, media, runRow, attempt, cause, reader>>

\* Another run holds LOTS_MEDIA_GATE_LOCK.
PruneRefused ==
  /\ pc = "prune"
  /\ pc' = "catch" /\ cause' = "gate"
  /\ UNCHANGED <<tables, attempt, reader>>

\* Mutant of PruneOrphanLotImages: lots are deleted and their images left.
SkipOrphans ==
  /\ pc = "orphans"
  /\ pc' = "complete"
  /\ UNCHANGED <<tables, attempt, cause, reader>>

\* All batches of the loop: nothing else writes lot_images under the gate.
PruneOrphanLotImages ==
  /\ pc = "orphans"
  /\ media' = media \cap Stored
  /\ pc' = "complete"
  /\ UNCHANGED <<lots, stage, runRow, attempt, cause, reader>>

CompleteSuccess ==
  /\ pc = "complete"
  /\ runRow' = "success" /\ pc' = "cleanup"
  /\ UNCHANGED <<lots, stage, media, attempt, cause, reader>>

\* A statement or the stream fails; the error of createIngestRun comes before
\* the try block, that of any later one is caught.
Fail(c) ==
  /\ pc \notin {"idle", "catch", "cleanup"}
  /\ cause' = c
  /\ IF pc # "create"
     THEN pc' = "catch" /\ UNCHANGED attempt
     ELSE IF Retryable(c) /\ attempt < MaxAttempts
     THEN attempt' = attempt + 1 /\ UNCHANGED pc
     ELSE pc' = "idle" /\ UNCHANGED attempt
  /\ UNCHANGED <<tables, reader>>

\* completeIngestRunFailure; if it fails its error takes the place of the first.
RecordFailure ==
  /\ pc = "catch"
  /\ \/ runRow' = "failed" /\ UNCHANGED cause
     \/ cause' = "db" /\ UNCHANGED runRow
  /\ pc' = "cleanup"
  /\ UNCHANGED <<lots, stage, media, attempt, reader>>

\* Mutant of CleanUp: a retry does not count.
CleanUpUncounted ==
  /\ pc = "cleanup"
  /\ stage' \in {{}, stage}
  /\ IF Retryable(cause) THEN pc' = "create" ELSE pc' = "idle"
  /\ UNCHANGED <<lots, media, runRow, attempt, cause, reader>>

\* Mutant of CleanUp: one attempt too many.
CleanUpOffByOne ==
  /\ pc = "cleanup"
  /\ stage' \in {{}, stage}
  /\ IF Retryable(cause) /\ attempt <= MaxAttempts
     THEN pc' = "create" /\ attempt' = attempt + 1
     ELSE pc' = "idle" /\ UNCHANGED attempt
  /\ UNCHANGED <<lots, media, runRow, cause, reader>>

\* The finally block clears the stage, or fails to and only warns; then the
\* loop of executeCsvIngestWithRetries returns, throws or starts over.
CleanUp ==
  /\ pc = "cleanup"
  /\ stage' \in {{}, stage}
  /\ IF Retryable(cause) /\ attempt < MaxAttempts
     THEN pc' = "create" /\ attempt' = attempt + 1
     ELSE pc' = "idle" /\ UNCHANGED attempt
  /\ UNCHANGED <<lots, media, runRow, cause, reader>>

Crash ==
  /\ pc # "idle"
  /\ pc' = "idle"
  /\ UNCHANGED <<tables, attempt, cause, reader>>

\* A photo job between two ingests: good images found and recorded, or none.
PhotoJob(l) ==
  /\ pc = "idle" /\ lots[l] # NoLot
  /\ \/ /\ media' = media \cup {l}
        /\ lots' = [lots EXCEPT ![l].status = "ok"]
     \/ /\ l \notin media
        /\ lots' = [lots EXCEPT ![l].status = "missing"]
        /\ UNCHANGED media
  /\ UNCHANGED <<stage, runRow, pc, attempt, cause, reader>>

IngestStep ==
  \/ CreateRun \/ ClearStage \/ ReadRow \/ StopReading
  \/ StageLotNumbers \/ UpsertLotsBatch \/ Hydrate
  \/ PruneMissingLots \/ PruneRefused \/ PruneOrphanLotImages
  \/ CompleteSuccess \/ RecordFailure \/ CleanUp

Next ==
  \/ Start \/ IngestStep \/ Crash
  \/ \E c \in {"network", "db"} : Fail(c)
  \/ \E l \in Lot : PhotoJob(l)

Spec == Init /\ [][Next]_vars

\* A running ingest goes on: its statements and its stream are answered.
FairSpec == Spec /\ WF_vars(IngestStep)

-----------------------------------------------------------------------------
FullFeed == ~limited /\ pos = Len(feed)

\* After a successful run that pruned, the table is the snapshot of its feed:
\* exactly the lots with a valid row, each with the URL of its last one,
\* whatever a crashed or failed run before it left behind (README.md:9).
SnapshotOnSuccess ==
  runRow = "success" /\ Prune /\ ~limited =>
    /\ Stored = LotsAt(ValidAt(Len(feed)))
    /\ \A l \in Stored : lots[l].url = LastUrl(ValidAt(Len(feed)), l)

\* A lot leaves the table only in the prune of an attempt that has read its
\* whole feed, found it valid enough and seen no valid row of the lot: no
\* failure, limit, crash or retry deletes anything (csv-ingest.ts:252-282).
DeletesOnlyMissing ==
  [][\A l \in Stored : l \notin Stored' =>
       FullFeed /\ ~TooInvalid /\ l \notin LotsAt(ValidAt(pos))]_vars

\* photo_status = ok is backed by a good stored image: neither the upsert nor
\* the hydration nor the pruning of images can leave a false ok.
OkHasMedia == \A l \in Stored : lots[l].status = "ok" => l \in media

\* After a successful run that pruned, no image belongs to a deleted lot.
MediaOfLots ==
  runRow = "success" /\ Prune /\ ~limited => media \subseteq Stored

\* A started ingest ends, with its retries, unless it crashes.
Terminates == pc # "idle" ~> pc = "idle"

\* "Retry policy for network errors and timeouts" (README.md:312): an attempt
\* that failed for another reason is not repeated.
RetriesNetworkErrorsOnly ==
  [][attempt' > attempt => cause = "network" \/ cause' = "network"]_vars
=============================================================================
