----------------------------- MODULE PhotoSync ------------------------------
(***************************************************************************)
(* services/photo: photo runs inside one process (the scheduler).  A run   *)
(* fetches a batch of candidate lots; a few runners (runWithConcurrency)   *)
(* take them one by one and processLot each: ask the endpoint for links,   *)
(* fall back to the mobile API behind a semaphore, check the links tier by *)
(* tier, store the good images and set the status of the lot.  A manual    *)
(* refresh processes a single lot in "replace" mode.  Between two          *)
(* statements of a runner the other runners go on, and the process may die *)
(* anywhere.                                                               *)
(*                                                                         *)
(* A run starts only when it gets the photo locks (AppLocks); ingest takes *)
(* a lock of the same set, so its writes come between runs.  Only images   *)
(* that passed the checks are ever stored (selectImagesForStorage).        *)
(***************************************************************************)
EXTENDS Integers, Sequences, FiniteSets

CONSTANTS
  Lot,           \* lots of copart_core.lots with an image URL
  Image,         \* keys of images of a lot: sequence and url_hash
  Run,           \* invocations of a photo run; one is used again when it is over
  Seat,          \* the runners of a run: photo.fetchConcurrency
  BatchSize,     \* photo.batchSize
  MmemberLimit,  \* mmemberFallback.concurrency
  MinAttempts,   \* mmemberFallback.minAttempts
  MayReject,     \* whether processLot may reject
  NoRun, NoLot

ASSUME PhotoAssumption ==
  /\ Seat # {} /\ IsFiniteSet(Seat) /\ IsFiniteSet(Lot)
  /\ BatchSize \in Nat \ {0} /\ MmemberLimit \in Nat \ {0}
  /\ MinAttempts \in Nat \ {0} /\ MayReject \in BOOLEAN
  /\ NoRun \notin Run /\ NoLot \notin Lot

VARIABLES
  lots,    \* photo_status and photo_404_count
  images,  \* good rows of copart_media.lot_images of each lot
  lock,    \* the run that holds the photo locks
  run,     \* what each run is doing, its candidates and its counters
  work,    \* what each runner is doing
  sem      \* mmemberSemaphore

vars == <<lots, images, lock, run, work, sem>>
tables == <<lots, images>>

Runner == Run \X Seat
BulkModes == {"default", "missing_only", "unknown_only"}
Modes == BulkModes \cup {"manual"}
\* photo_404_count matters only up to MinAttempts and is capped there.
Counts == 0..MinAttempts
Candidate == [lot : Lot, count : Counts]

Off == [pc |-> "off", lot |-> NoLot, count |-> 0, store |-> {}]
Resting == {"off", "take"}
Mobile == {"queued", "mmember"}
Tiers == {"full", "hd", "other"}
Writes == {"clear", "purge", "insert", "delete", "ok", "missing"}
PCs == Resting \cup Mobile \cup Tiers \cup Writes \cup {"fetch", "log", "recover"}

TypeOK ==
  /\ lots \in [Lot -> [status : {"unknown", "ok", "missing"}, count : Counts]]
  /\ images \in [Lot -> SUBSET Image]
  /\ lock \in Run \cup {NoRun}
  /\ run \in [Run -> [phase : {"idle", "reset", "clear", "create", "running", "failing"},
                      mode : Modes, lot : Lot \cup {NoLot}, todo : SUBSET Candidate,
                      scanned : SUBSET Lot, ok : 0..BatchSize, missing : 0..BatchSize,
                      row : {"none", "running", "success", "failed"}]]
  /\ work \in [Runner -> [pc : PCs, lot : Lot \cup {NoLot}, count : Counts,
                          store : SUBSET Image]]
  /\ sem.count \in 0..MmemberLimit /\ sem.queue \in Seq(Runner)

FreshRun(mode, lot, phase) ==
  [phase |-> phase, mode |-> mode, lot |-> lot, todo |-> {}, scanned |-> {},
   ok |-> 0, missing |-> 0, row |-> "none"]

Init ==
  /\ lots = [l \in Lot |-> [status |-> "unknown", count |-> 0]]
  /\ images = [l \in Lot |-> {}]
  /\ lock = NoRun
  /\ run = [j \in Run |-> FreshRun("default", NoLot, "idle")]
  /\ work = [r \in Runner |-> Off]
  /\ sem = [count |-> 0, queue |-> << >>]

-----------------------------------------------------------------------------
(* The queries and statements. *)

Unknown == {l \in Lot : lots[l].status = "unknown"}
MissingWithoutImages == {l \in Lot : lots[l].status = "missing" /\ images[l] = {}}

\* The lots fetchPhotoCandidates selects from when the retry time of the lots
\* in waiting has not come.
CandidateLots(mode, waiting) ==
  CASE mode = "unknown_only" -> Unknown
    [] mode = "missing_only" -> MissingWithoutImages \ waiting
    [] mode = "default"      -> Unknown \cup (MissingWithoutImages \ waiting)

AsCandidate(l) == [lot |-> l, count |-> lots[l].count]

\* The NOT EXISTS of markLotPhotoMissing*: in "li.lot_number = lot_number" both
\* sides are the column of lot_images, so that an image of any lot counts.
NoGoodImage(l) == \A m \in Lot : images[m] = {}

MissingOnce(lot) ==
  [status |-> "missing",
   count |-> IF lot.count < MinAttempts THEN lot.count + 1 ELSE lot.count]

\* What the outstanding statement of runner r makes of the two tables.
LotsAfter(r) ==
  LET l == work[r].lot IN
  CASE work[r].pc = "ok" -> [lots EXCEPT ![l] = [status |-> "ok", count |-> 0]]
    [] work[r].pc \in {"missing", "recover"} /\ NoGoodImage(l) ->
         [lots EXCEPT ![l] = MissingOnce(@)]
    [] OTHER -> lots

\* Mutant of ImagesAfter: what was stored before is kept, the new is dropped.
ImagesAfterKeepingOld(r) ==
  LET l == work[r].lot IN
  CASE work[r].pc = "insert" -> [images EXCEPT ![l] = @ \cup work[r].store]
    [] work[r].pc = "delete" -> [images EXCEPT ![l] = @ \ work[r].store]
    [] work[r].pc \in {"clear", "purge"} -> [images EXCEPT ![l] = {}]
    [] OTHER -> images

ImagesAfter(r) ==
  LET l == work[r].lot IN
  CASE work[r].pc = "insert" -> [images EXCEPT ![l] = @ \cup work[r].store]
    [] work[r].pc = "delete" -> [images EXCEPT ![l] = @ \cap work[r].store]
    [] work[r].pc \in {"clear", "purge"} -> [images EXCEPT ![l] = {}]
    [] OTHER -> images

Replacing(r) == run[r[1]].mode = "manual"
Go(r, pc) == work' = [work EXCEPT ![r].pc = pc]

\* Where processLot goes without links, and without a good image.
NoLinks(r) == IF Replacing(r) THEN "clear" ELSE "missing"
NoImages(r) == IF Replacing(r) THEN "purge" ELSE "missing"

\* What a request to the endpoint comes to: no links (404, an error, an
\* exception, an empty or unusable payload), images counted but none listed, or
\* links of any tiers.
EndpointAnswers == {"none", "counted", "links"}

\* The same for the mobile API, which answers or throws.
MobileAnswers == {"none", "links"}

\* The images of a tier that turn out good.  That stored good images are not
\* downloaded again makes no difference here.
GoodImages == SUBSET Image

-----------------------------------------------------------------------------
(* executePhotoSync and runPhotoSyncForLot. *)

Start(j) ==
  /\ lock = NoRun
  /\ run[j].phase = "idle" /\ \A i \in Seat : work[<<j, i>>] = Off
  /\ lock' = j
  /\ \E mode \in BulkModes : run' = [run EXCEPT ![j] = FreshRun(mode, NoLot, "create")]
  /\ UNCHANGED <<tables, work, sem>>

\* createPhotoRun and fetchPhotoCandidates: up to BatchSize of the due lots.
FetchCandidates(j) ==
  /\ run[j].phase = "create"
  /\ \E waiting \in SUBSET Lot :
       LET due == CandidateLots(run[j].mode, waiting) IN
       \E C \in SUBSET due :
         /\ Cardinality(C) <= BatchSize
         /\ C = due \/ Cardinality(C) = BatchSize
         /\ run' = [run EXCEPT ![j].phase = "running", ![j].row = "running",
                               ![j].scanned = C, ![j].todo = {AsCandidate(l) : l \in C}]
  /\ work' = [r \in Runner |-> IF r[1] = j THEN [Off EXCEPT !.pc = "take"] ELSE work[r]]
  /\ UNCHANGED <<tables, lock, sem>>

\* refreshLotFullyByNumber, after its upsert of the lot's row.
StartManual(j, l) ==
  /\ lock = NoRun
  /\ run[j].phase = "idle" /\ \A i \in Seat : work[<<j, i>>] = Off
  /\ lock' = j
  /\ run' = [run EXCEPT ![j] = FreshRun("manual", l, "reset")]
  /\ UNCHANGED <<tables, work, sem>>

\* resetLotPhotoState; a row without a URL has its images cleared, any other
\* becomes the only candidate of a run with one runner.
ResetLot(j) ==
  LET l == run[j].lot IN
  /\ run[j].phase = "reset"
  /\ lots' = [lots EXCEPT ![l] = [status |-> "unknown", count |-> 0]]
  /\ \/ run' = [run EXCEPT ![j].phase = "clear"] /\ UNCHANGED work
     \/ /\ run' = [run EXCEPT ![j].phase = "running", ![j].row = "running",
                              ![j].scanned = {l}, ![j].todo = {[lot |-> l, count |-> 0]}]
        /\ \E i \in Seat : work' = [work EXCEPT ![<<j, i>>].pc = "take"]
  /\ UNCHANGED <<images, lock, sem>>

ClearLot(j) ==
  /\ run[j].phase = "clear"
  /\ images' = [images EXCEPT ![run[j].lot] = {}]
  /\ run' = [run EXCEPT ![j].phase = "idle"]
  /\ lock' = NoRun
  /\ UNCHANGED <<lots, work, sem>>

\* A statement fails before the run has candidates.
Abort(j) ==
  /\ run[j].phase \in {"reset", "clear", "create"}
  /\ run' = [run EXCEPT ![j].phase = "idle"]
  /\ lock' = NoRun
  /\ UNCHANGED <<tables, work, sem>>

\* Mutant of CompleteSuccess: the first runner to find the list empty is enough.
CompleteEarly(j) ==
  /\ run[j].phase = "running" /\ run[j].todo = {}
  /\ \E i \in Seat : work[<<j, i>>] = Off
  /\ run' = [run EXCEPT ![j].phase = "idle", ![j].row = "success"]
  /\ lock' = NoRun
  /\ UNCHANGED <<tables, work, sem>>

\* Promise.all resolves when every runner has found the list empty.
CompleteSuccess(j) ==
  /\ run[j].phase = "running" /\ run[j].todo = {}
  /\ \A i \in Seat : work[<<j, i>>] = Off
  /\ run' = [run EXCEPT ![j].phase = "idle", ![j].row = "success"]
  /\ lock' = NoRun
  /\ UNCHANGED <<tables, work, sem>>

\* completePhotoRunSuccess fails.
CompleteFails(j) ==
  /\ run[j].phase = "running" /\ run[j].todo = {}
  /\ \A i \in Seat : work[<<j, i>>] = Off
  /\ run' = [run EXCEPT ![j].phase = "failing"]
  /\ UNCHANGED <<tables, lock, work, sem>>

\* completePhotoRunFailure, or its failure; either way the locks are released
\* while the runners that did not reject go on with the list.
CompleteFailure(j) ==
  /\ run[j].phase = "failing"
  /\ \E row \in {run[j].row, "failed"} :
       run' = [run EXCEPT ![j].phase = "idle", ![j].row = row]
  /\ lock' = NoRun
  /\ UNCHANGED <<tables, work, sem>>

-----------------------------------------------------------------------------
(* A runner. *)

\* Mutant of Take: the index is read before an await and written after it.
TakeShared(r) ==
  LET j == r[1] IN
  /\ work[r].pc = "take"
  /\ \/ run[j].todo = {} /\ work' = [work EXCEPT ![r] = Off] /\ UNCHANGED run
     \/ \E c \in run[j].todo :
          /\ work' = [work EXCEPT ![r] = [pc |-> "fetch", lot |-> c.lot,
                                          count |-> c.count, store |-> {}]]
          /\ run' \in {run, [run EXCEPT ![j].todo = @ \ {c}]}
  /\ UNCHANGED <<tables, lock, sem>>

\* The loop of runWithConcurrency: the shared index is read and advanced with
\* no await in between.
Take(r) ==
  LET j == r[1] IN
  /\ work[r].pc = "take"
  /\ \/ run[j].todo = {} /\ work' = [work EXCEPT ![r] = Off] /\ UNCHANGED run
     \/ \E c \in run[j].todo :
          /\ work' = [work EXCEPT ![r] = [pc |-> "fetch", lot |-> c.lot,
                                          count |-> c.count, store |-> {}]]
          /\ run' = [run EXCEPT ![j].todo = @ \ {c}]
  /\ UNCHANGED <<tables, lock, sem>>

\* Mutant of Acquire: the slot is taken without looking at the limit.
AcquireUnbounded(r) ==
  /\ sem' = [sem EXCEPT !.count = @ + 1]
  /\ Go(r, "mmember")

\* createSemaphore: the slot is taken at once or when its turn comes.
Acquire(r) ==
  \/ /\ sem.count < MmemberLimit
     /\ sem' = [sem EXCEPT !.count = @ + 1]
     /\ Go(r, "mmember")
  \/ /\ sem.count >= MmemberLimit
     /\ sem' = [sem EXCEPT !.queue = Append(@, r)]
     /\ Go(r, "queued")

\* The endpoint answers.  Images it counts but does not list are asked of the
\* mobile API, once the lot has been missing often enough.
Fetch(r) ==
  /\ work[r].pc = "fetch"
  /\ \E answer \in EndpointAnswers :
       \/ /\ answer = "counted" /\ work[r].count >= MinAttempts
          /\ Acquire(r)
       \/ /\ answer = "none" \/ (answer = "counted" /\ work[r].count < MinAttempts)
          /\ Go(r, NoLinks(r)) /\ UNCHANGED sem
       \/ /\ answer = "links"
          /\ Go(r, "full") /\ UNCHANGED sem
  /\ UNCHANGED <<tables, lock, run>>

\* Mutant of Mmember: the slot is freed and the next waiter not called.
MmemberForgetsQueue(r) ==
  /\ work[r].pc = "mmember"
  /\ \E pc \in {"full", NoLinks(r)} :
       /\ sem' = [sem EXCEPT !.count = @ - 1]
       /\ work' = [work EXCEPT ![r].pc = pc]
  /\ UNCHANGED <<tables, lock, run>>

\* Mutant of Mmember: a failed request frees its slot twice.
MmemberReleasesTwice(r) ==
  /\ work[r].pc = "mmember"
  /\ sem' \in {[sem EXCEPT !.count = @ - 1], [sem EXCEPT !.count = @ - 2]}
  /\ Go(r, NoLinks(r))
  /\ UNCHANGED <<tables, lock, run>>

\* fetchMmemberLotImages is over; release hands the slot to the first waiter.
Mmember(r) ==
  /\ work[r].pc = "mmember"
  /\ \E answer \in MobileAnswers :
       LET pc == IF answer = "links" THEN "full" ELSE NoLinks(r) IN
       \/ /\ sem.queue = << >>
          /\ sem' = [sem EXCEPT !.count = @ - 1]
          /\ work' = [work EXCEPT ![r].pc = pc]
       \/ /\ sem.queue # << >>
          /\ sem' = [sem EXCEPT !.queue = Tail(@)]
          /\ work' = [work EXCEPT ![r].pc = pc, ![Head(sem.queue)].pc = "mmember"]
  /\ UNCHANGED <<tables, lock, run>>

\* The links of a tier are checked; the first tier with a good image is used.
Inspect(r) ==
  /\ work[r].pc \in Tiers
  /\ \E good \in GoodImages :
       \/ /\ good # {}
          /\ work' = [work EXCEPT ![r].pc = "insert", ![r].store = good]
       \/ /\ good = {}
          /\ Go(r, CASE work[r].pc = "full"  -> "hd"
                     [] work[r].pc = "hd"    -> "other"
                     [] work[r].pc = "other" -> NoImages(r))
  /\ UNCHANGED <<tables, lock, run, sem>>

\* Mutant of ReplaceLotImages: the rows not in the list go first.
ReplaceDeletesFirst(r) ==
  /\ work[r].pc \in {"clear", "purge", "insert", "delete"}
  /\ images' = IF work[r].pc = "insert"
               THEN [images EXCEPT ![work[r].lot] = @ \cap work[r].store]
               ELSE IF work[r].pc = "delete"
               THEN [images EXCEPT ![work[r].lot] = @ \cup work[r].store]
               ELSE ImagesAfter(r)
  /\ Go(r, CASE work[r].pc \in {"clear", "purge"} -> "missing"
             [] work[r].pc = "insert" -> "delete"
             [] work[r].pc = "delete" -> "ok")
  /\ UNCHANGED <<lots, lock, run, sem>>

\* The statements of clearLotImages and replaceLotImages: the new rows are
\* inserted, then the others deleted, whatever the mode.
ReplaceLotImages(r) ==
  /\ work[r].pc \in {"clear", "purge", "insert", "delete"}
  /\ images' = ImagesAfter(r)
  /\ Go(r, CASE work[r].pc \in {"clear", "purge"} -> "missing"
             [] work[r].pc = "insert" -> "delete"
             [] work[r].pc = "delete" -> "ok")
  /\ UNCHANGED <<lots, lock, run, sem>>

MarkOk(r) ==
  /\ work[r].pc = "ok"
  /\ lots' = LotsAfter(r)
  /\ run' = [run EXCEPT ![r[1]].ok = @ + 1]
  /\ work' = [work EXCEPT ![r] = [Off EXCEPT !.pc = "take"]]
  /\ UNCHANGED <<images, lock, sem>>

\* markLotPhotoMissing*; the counter moves whether or not the row did.
MarkMissing(r) ==
  /\ work[r].pc \in {"missing", "recover"}
  /\ lots' = LotsAfter(r)
  /\ run' = [run EXCEPT ![r[1]].missing = @ + 1]
  /\ work' = [work EXCEPT ![r] = [Off EXCEPT !.pc = "take"]]
  /\ UNCHANGED <<images, lock, sem>>

\* A statement or a check throws, after or before it took effect: the catch
\* block of processLot logs the attempt and marks the lot missing.
Throw(r) ==
  /\ work[r].pc \in Writes \cup Tiers \cup {"fetch"}
  /\ \/ lots' = LotsAfter(r) /\ images' = ImagesAfter(r)
     \/ UNCHANGED tables
  /\ work' = [work EXCEPT ![r].pc = "log", ![r].store = {}]
  /\ UNCHANGED <<lock, run, sem>>

LogPhotoAttempt(r) ==
  /\ work[r].pc = "log"
  /\ Go(r, "recover")
  /\ UNCHANGED <<tables, lock, run, sem>>

\* A statement of the catch block fails: the runner rejects, and Promise.all
\* with it, while the other runners go on.
Reject(r) ==
  /\ MayReject
  /\ work[r].pc \in {"log", "recover"}
  /\ work' = [work EXCEPT ![r] = Off]
  /\ run' = [run EXCEPT ![r[1]].phase = IF @ = "running" THEN "failing" ELSE @]
  /\ lots' \in {lots, LotsAfter(r)}
  /\ UNCHANGED <<images, lock, sem>>

-----------------------------------------------------------------------------
(* The rest of the process. *)

\* The process dies: its leases run out, its memory is gone.
Crash ==
  /\ lock # NoRun
  /\ lock' = NoRun
  /\ run' = [j \in Run |-> [run[j] EXCEPT !.phase = "idle", !.todo = {}]]
  /\ work' = [r \in Runner |-> Off]
  /\ sem' = [count |-> 0, queue |-> << >>]
  /\ UNCHANGED tables

\* upsertLotsBatch brings a lot a new image URL.
UpsertUrl(l) ==
  /\ lock = NoRun
  /\ lots' = [lots EXCEPT ![l] = [status |-> "unknown", count |-> 0]]
  /\ UNCHANGED <<images, lock, run, work, sem>>

\* Mutant of Hydrate: lots that are missing already are left out.
HydrateUnknown ==
  /\ lock = NoRun
  /\ lots' = [l \in Lot |-> IF images[l] # {} /\ lots[l].status = "unknown"
                            THEN [status |-> "ok", count |-> 0] ELSE lots[l]]
  /\ UNCHANGED <<images, lock, run, work, sem>>

\* hydrateInsertedLotsPhotoStatusFromMedia: stored images make a lot ok.
Hydrate ==
  /\ lock = NoRun
  /\ lots' = [l \in Lot |-> IF images[l] # {} THEN [status |-> "ok", count |-> 0]
                            ELSE lots[l]]
  /\ UNCHANGED <<images, lock, run, work, sem>>

RunnerStep(r) ==
  \/ Take(r) \/ Fetch(r) \/ Mmember(r) \/ Inspect(r) \/ ReplaceLotImages(r)
  \/ MarkOk(r) \/ MarkMissing(r) \/ LogPhotoAttempt(r)

RunStep(j) ==
  \/ FetchCandidates(j) \/ ResetLot(j) \/ ClearLot(j)
  \/ CompleteSuccess(j) \/ CompleteFailure(j)

Next ==
  \/ \E j \in Run :
       \/ Start(j) \/ (\E l \in Lot : StartManual(j, l))
       \/ RunStep(j) \/ Abort(j) \/ CompleteFails(j)
  \/ \E r \in Runner : RunnerStep(r) \/ Throw(r) \/ Reject(r)
  \/ Crash
  \/ \E l \in Lot : UpsertUrl(l)
  \/ Hydrate

Spec == Init /\ [][Next]_vars

\* Statements and requests are answered (every request has a timeout), and the
\* scheduled pipeline is not refused by the locks for ever.
Fairness ==
  /\ \A j \in Run : WF_vars(RunStep(j))
  /\ \A r \in Runner : WF_vars(RunnerStep(r))
  /\ SF_vars(Hydrate)

FairSpec == Spec /\ Fairness

-----------------------------------------------------------------------------
(* Properties. *)

\* photo_status = ok is backed by a stored good image, wherever a run, a
\* manual refresh or a crash left off between the writes to the two databases
\* (photo-sync.ts:505-524).
OkHasImages == \A l \in Lot : lots[l].status = "ok" => images[l] # {}

\* Only the manual refresh of a lot ever leaves it without the images it had:
\* the insert and the delete of a bulk run never do, a failed one included.
KeepsSomeImage ==
  [][\A l \in Lot : images[l] # {} /\ images'[l] = {} =>
       lock # NoRun /\ run[lock].mode = "manual" /\ run[lock].lot = l]_vars

\* No two runners process the same lot at the same time, so that the stale copy
\* of photo_404_count in a candidate is never stale (photo-sync.ts:216-227).
NoLotTwice ==
  \A r, s \in Runner : r # s /\ work[r].lot # NoLot => work[r].lot # work[s].lot

\* A run recorded as a success has counted every lot it scanned, once.
CountsEveryCandidate ==
  \A j \in Run : run[j].row = "success" =>
    run[j].ok + run[j].missing = Cardinality(run[j].scanned)

\* The semaphore lets no more than its limit through, and keeps no slot for a
\* request that has ended (photo-sync.ts:236-261).
MmemberBounded ==
  LET inside == {r \in Runner : work[r].pc = "mmember"} IN
  Cardinality(inside) = sem.count /\ sem.count <= MmemberLimit

\* A run that got the locks gives them back: no runner waits for ever for the
\* list, the semaphore or another runner.
RunEnds == lock # NoRun ~> lock = NoRun

\* A lot that a failure left missing in one database with images in the other
\* is a candidate of no run (photo-repository.ts:868-883); the next ingest
\* puts it right.
HalfStoredHeals ==
  \A l \in Lot : lots[l].status = "missing" /\ images[l] # {} ~>
                 ~(lots[l].status = "missing" /\ images[l] # {})

\* "Set the status of the lot: ok / missing" (README.md:299): when a bulk run
\* succeeds, the lots it scanned that have no image are missing.
SuccessSetsStatus ==
  [][\A j \in Run : run[j].row = "running" /\ run'[j].row = "success" =>
       \A l \in run[j].scanned : images[l] = {} => lots[l].status = "missing"]_vars

\* "Good photos already found are not deleted on repeated runs" (README.md:345).
KeepsGoodImages ==
  [][lock # NoRun /\ run[lock].mode \in BulkModes =>
       \A l \in Lot : images[l] \subseteq images'[l]]_vars
=============================================================================
