-------------------------- MODULE PhotoSyncProofs ---------------------------
(***************************************************************************)
(* Proofs about PhotoSync for every set of lots, images, runs and runners, *)
(* every batch size and every limit of the semaphore.                      *)
(*                                                                         *)
(* What is said of counters and of the semaphore holds however runs        *)
(* overlap.  What is said of lots and images is about one run at a time    *)
(* (OneAtATime): the runners that a rejected run leaves behind have ended  *)
(* before the next run starts, or processLot does not reject.              *)
(***************************************************************************)
EXTENDS PhotoSync, FiniteSetTheorems, FunctionTheorems, TLAPS

\* Either one slot serves all runs, which Start fills again only when it is
\* empty, or processLot never rejects and no run leaves runners behind.
OneAtATime == MayReject => \A j, k \in Run : j = k

-----------------------------------------------------------------------------
(* The parts of the inductive invariant. *)

Phases == {"idle", "reset", "clear", "create", "running", "failing"}
Rows == {"none", "running", "success", "failed"}
Preparing == {"reset", "clear", "create"}

LotRow == [status : {"unknown", "ok", "missing"}, count : Counts]
WorkState == [pc : PCs, lot : Lot \cup {NoLot}, count : Counts, store : SUBSET Image]
RunState ==
  [phase : Phases, mode : Modes, lot : Lot \cup {NoLot}, todo : SUBSET Candidate,
   scanned : SUBSET Lot, ok : Nat, missing : Nat, row : Rows]

\* The types, with counters as yet unbounded.
Shape ==
  /\ lots \in [Lot -> LotRow]
  /\ images \in [Lot -> SUBSET Image]
  /\ lock \in Run \cup {NoRun}
  /\ run \in [Run -> RunState]
  /\ work \in [Runner -> WorkState]
  /\ sem \in [count : Int, queue : Seq(Runner)]

Rests(r) == work[r].pc \in Resting
AllOff(j) == \A i \in Seat : work[<<j, i>>].pc = "off"
Manual(j) == run[j].mode = "manual"

\* A runner between two lots holds nothing of the last one.
RestInv ==
  \A r \in Runner :
    /\ Rests(r) => work[r] = [Off EXCEPT !.pc = work[r].pc]
    /\ ~Rests(r) => work[r].lot \in Lot

\* The holder of the locks is the run that is under way, and it has no runner
\* before it has candidates.
LockInv == \A j \in Run : run[j].phase # "idle" <=> lock = j

PrepareOf(j) ==
  run[j].phase \in Preparing =>
    /\ AllOff(j) /\ run[j].todo = {}
    /\ run[j].ok = 0 /\ run[j].missing = 0 /\ run[j].row = "none"
    /\ Manual(j) <=> run[j].phase # "create"

\* The candidates that wait and those being processed are of different lots.
ListOf(j) ==
  /\ \A c, d \in run[j].todo : c.lot = d.lot => c = d
  /\ \A i \in Seat : ~Rests(<<j, i>>) =>
       /\ \A c \in run[j].todo : c.lot # work[<<j, i>>].lot
       /\ \A k \in Seat : k # i /\ ~Rests(<<j, k>>) => work[<<j, i>>].lot # work[<<j, k>>].lot

\* Only a rejected run leaves runners behind.
LiveInv ==
  \A r \in Runner : work[r].pc # "off" => MayReject \/ run[r[1]].phase = "running"

\* A manual run has one runner and one lot, and leaves nothing behind.
ManualOf(j) ==
  Manual(j) =>
    /\ run[j].lot \in Lot
    /\ run[j].todo # {} => run[j].phase = "running"
    /\ \A c \in run[j].todo : c.lot = run[j].lot
    /\ \A i \in Seat : work[<<j, i>>].pc # "off" =>
         /\ run[j].phase = "running"
         /\ \A k \in Seat : k # i => work[<<j, k>>].pc = "off"
         /\ ~Rests(<<j, i>>) => run[j].todo = {} /\ work[<<j, i>>].lot = run[j].lot

PrepareInv == \A j \in Run : PrepareOf(j)
ListInv == \A j \in Run : ListOf(j)
ManualInv == \A j \in Run : ManualOf(j)
Structure == RestInv /\ LockInv /\ PrepareInv /\ ListInv /\ LiveInv /\ ManualInv

\* The semaphore counts those inside; those that wait are queued once.
Inside == {r \in Runner : work[r].pc = "mmember"}

SemInv ==
  /\ IsFiniteSet(Inside) /\ Cardinality(Inside) = sem.count
  /\ sem.count <= MmemberLimit
  /\ \A m, n \in 1..Len(sem.queue) :
       /\ work[sem.queue[m]].pc = "queued"
       /\ sem.queue[m] = sem.queue[n] => m = n

\* What a run has scanned is counted, waiting, being processed, or lost with a
\* runner that rejected.
Busy(j) == {i \in Seat : ~Rests(<<j, i>>)}
Accounted(j) ==
  run[j].ok + run[j].missing + Cardinality(run[j].todo) + Cardinality(Busy(j))

CountOf(j) ==
  /\ Cardinality(run[j].scanned) <= BatchSize
  /\ IsFiniteSet(run[j].todo)
  /\ Accounted(j) <= Cardinality(run[j].scanned)
  /\ run[j].phase = "running" => Accounted(j) = Cardinality(run[j].scanned)
  /\ run[j].row = "success" =>
       /\ run[j].phase = "idle" /\ AllOff(j) /\ run[j].todo = {}
       /\ Accounted(j) = Cardinality(run[j].scanned)

CountInv == \A j \in Run : CountOf(j)

\* What a runner is about to record is stored, and what a manual refresh may
\* still clear is not recorded as ok.
Undecided == {"fetch", "queued", "mmember", "clear", "purge"} \cup Tiers

StoreOf(r) ==
  LET l == work[r].lot IN
  /\ work[r].pc \in {"insert", "delete", "ok"} => work[r].store # {}
  /\ work[r].pc = "delete" => work[r].store \subseteq images[l]
  /\ work[r].pc = "ok" => images[l] # {}
  /\ work[r].pc \in {"clear", "purge"} => Manual(r[1])
  /\ Manual(r[1]) /\ work[r].pc \in Undecided => lots[l].status # "ok"

ResetOf(j) ==
  Manual(j) /\ (run[j].phase = "clear" \/ run[j].todo # {}) => lots[run[j].lot].status # "ok"

ImageInv ==
  /\ OkHasImages
  /\ \A r \in Runner : StoreOf(r)
  /\ \A j \in Run : ResetOf(j)

-----------------------------------------------------------------------------
(* Types. *)

\* A runner that is off, and one that takes the next lot, have the type of a runner.
LEMMA OffShape ==
  /\ Off \in WorkState /\ [Off EXCEPT !.pc = "take"] \in WorkState
  /\ Off.pc = "off" /\ Off.lot = NoLot /\ Off = [Off EXCEPT !.pc = Off.pc]
  /\ [Off EXCEPT !.pc = "take"].pc = "take" /\ [Off EXCEPT !.pc = "take"].lot = NoLot
  /\ 0 \in Counts
BY PhotoAssumption DEF Off, WorkState, PCs, Resting, Counts

\* Going to another point of the code changes nothing else of a runner.
LEMMA GoShape ==
  ASSUME Shape, NEW r \in Runner, NEW pc \in PCs, Go(r, pc)
  PROVE  /\ work' \in [Runner -> WorkState]
         /\ work'[r].pc = pc /\ work'[r].lot = work[r].lot /\ work'[r].store = work[r].store
         /\ \A s \in Runner : s # r => work'[s] = work[s]
BY DEF Shape, Go, WorkState

\* What the statements write is of the type of the tables.
LEMMA WriteShape ==
  ASSUME Shape, NEW r \in Runner
  PROVE  LotsAfter(r) \in [Lot -> LotRow] /\ ImagesAfter(r) \in [Lot -> SUBSET Image]
<1>1. \A l \in Lot : MissingOnce(lots[l]) \in LotRow
  BY PhotoAssumption DEF Shape, MissingOnce, Counts, LotRow
<1>2. [status |-> "ok", count |-> 0] \in LotRow
  BY OffShape DEF LotRow
<1>3. LotsAfter(r) \in [Lot -> LotRow]
  <2>1. CASE work[r].pc = "ok"
    BY <1>2, <2>1 DEF LotsAfter, Shape
  <2>2. CASE work[r].pc \in {"missing", "recover"} /\ NoGoodImage(work[r].lot)
    BY <1>1, <2>2 DEF LotsAfter, Shape
  <2>3. CASE ~(work[r].pc = "ok") /\ ~(work[r].pc \in {"missing", "recover"} /\ NoGoodImage(work[r].lot))
    BY <2>3 DEF LotsAfter, Shape
  <2>4. QED
    BY <2>1, <2>2, <2>3
<1>4. ImagesAfter(r) \in [Lot -> SUBSET Image]
  BY DEF ImagesAfter, Shape, WorkState
<1>5. QED
  BY <1>3, <1>4

\* What Start and StartManual write has the type of a run.
LEMMA FreshShape ==
  ASSUME NEW mode \in Modes, NEW l \in Lot \cup {NoLot}, NEW phase \in Phases
  PROVE  FreshRun(mode, l, phase) \in RunState
BY DEF FreshRun, RunState, Rows

\* The types hold at first.
LEMMA ShapeInit == Init => Shape
<1>1. FreshRun("default", NoLot, "idle") \in RunState
  BY FreshShape DEF Modes, BulkModes, Phases
<1>2. QED
  BY <1>1, OffShape DEF Init, Shape, LotRow

\* A run's record after a change of some of its fields.
LEMMA RunShape ==
  ASSUME Shape, NEW j \in Run
  PROVE  /\ \A phase \in Phases : [run EXCEPT ![j].phase = phase] \in [Run -> RunState]
         /\ \A todo \in SUBSET Candidate : [run EXCEPT ![j].todo = todo] \in [Run -> RunState]
         /\ \A n \in Nat : /\ [run EXCEPT ![j].ok = n] \in [Run -> RunState]
                           /\ [run EXCEPT ![j].missing = n] \in [Run -> RunState]
         /\ \A phase \in Phases, row \in Rows :
              [run EXCEPT ![j].phase = phase, ![j].row = row] \in [Run -> RunState]
         /\ \A phase \in Phases, row \in Rows, scanned \in SUBSET Lot, todo \in SUBSET Candidate :
              [run EXCEPT ![j].phase = phase, ![j].row = row, ![j].scanned = scanned,
                          ![j].todo = todo] \in [Run -> RunState]
<1>1. run \in [Run -> RunState] /\ run[j] \in RunState
  BY DEF Shape
<1> USE <1>1 DEF RunState
<1>2. \A phase \in Phases : [run EXCEPT ![j].phase = phase] \in [Run -> RunState]
  OBVIOUS
<1>3. \A todo \in SUBSET Candidate : [run EXCEPT ![j].todo = todo] \in [Run -> RunState]
  OBVIOUS
<1>4. \A n \in Nat : /\ [run EXCEPT ![j].ok = n] \in [Run -> RunState]
                     /\ [run EXCEPT ![j].missing = n] \in [Run -> RunState]
  OBVIOUS
<1>5. \A phase \in Phases, row \in Rows :
        [run EXCEPT ![j].phase = phase, ![j].row = row] \in [Run -> RunState]
  OBVIOUS
<1>6. ASSUME NEW phase \in Phases, NEW row \in Rows, NEW scanned \in SUBSET Lot,
             NEW todo \in SUBSET Candidate
      PROVE  [run EXCEPT ![j].phase = phase, ![j].row = row, ![j].scanned = scanned,
                         ![j].todo = todo] \in [Run -> RunState]
  <2>1. [[run[j] EXCEPT !.phase = phase, !.row = row, !.scanned = scanned] EXCEPT !.todo = todo]
          \in RunState
    OBVIOUS
  <2>2. [run EXCEPT ![j].phase = phase, ![j].row = row, ![j].scanned = scanned, ![j].todo = todo]
          = [run EXCEPT ![j] = [run[j] EXCEPT !.phase = phase, !.row = row, !.scanned = scanned,
                                              !.todo = todo]]
    OBVIOUS
  <2>3. QED
    BY <2>1, <2>2
<1>7. QED
  BY <1>2, <1>3, <1>4, <1>5, <1>6

\* The actions of a run keep the types.
LEMMA RunShapeStep ==
  ASSUME Shape, PrepareInv, ManualInv, NEW j \in Run,
         \/ Start(j) \/ (\E l \in Lot : StartManual(j, l))
         \/ RunStep(j) \/ Abort(j) \/ CompleteFails(j)
  PROVE  Shape'
<1> USE DEF Shape
<1>0. /\ "idle" \in Phases /\ "create" \in Phases /\ "reset" \in Phases /\ "clear" \in Phases
      /\ "running" \in Phases /\ "failing" \in Phases
      /\ "running" \in Rows /\ "success" \in Rows /\ "failed" \in Rows
  BY DEF Phases, Rows
<1>1. CASE Start(j)
  <2>1. PICK mode \in BulkModes : run' = [run EXCEPT ![j] = FreshRun(mode, NoLot, "create")]
    BY <1>1 DEF Start
  <2>2. FreshRun(mode, NoLot, "create") \in RunState
    BY <1>0, FreshShape DEF Modes
  <2>3. QED
    BY <1>1, <2>1, <2>2 DEF Start, tables
<1>2. ASSUME NEW l \in Lot, StartManual(j, l)
      PROVE  Shape'
  <2>1. FreshRun("manual", l, "reset") \in RunState
    BY <1>0, FreshShape DEF Modes
  <2>2. QED
    BY <1>2, <2>1 DEF StartManual, tables
<1>3. CASE FetchCandidates(j)
  <2>0. run[j].mode \in BulkModes
    BY <1>3 DEF FetchCandidates, PrepareInv, PrepareOf, Preparing, Manual, RunState, Modes
  <2>1. PICK C \in SUBSET Lot :
          run' = [run EXCEPT ![j].phase = "running", ![j].row = "running",
                             ![j].scanned = C, ![j].todo = {AsCandidate(l) : l \in C}]
    <3>1. \A waiting : CandidateLots(run[j].mode, waiting) \subseteq Lot
      BY <2>0 DEF CandidateLots, Unknown, MissingWithoutImages, BulkModes
    <3>2. QED
      BY <1>3, <3>1 DEF FetchCandidates
  <2>2. {AsCandidate(l) : l \in C} \subseteq Candidate
    BY <2>1 DEF AsCandidate, Candidate, LotRow
  <2>3. work' \in [Runner -> WorkState]
    BY SMTT(60), <1>3, OffShape DEF FetchCandidates
  <2>4. run' \in [Run -> RunState]
    BY ZenonT(60), <1>0, <2>1, <2>2, RunShape
  <2>5. QED
    BY <1>3, <2>3, <2>4 DEF FetchCandidates, tables
<1>4. CASE ResetLot(j)
  <2>1. lots' \in [Lot -> LotRow]
    BY <1>4, OffShape DEF ResetLot, LotRow
  <2>2. CASE run' = [run EXCEPT ![j].phase = "clear"] /\ UNCHANGED work
    BY ZenonT(60), <1>0, <1>4, <2>1, <2>2, RunShape DEF ResetLot
  <2>3. CASE /\ run' = [run EXCEPT ![j].phase = "running", ![j].row = "running",
                                   ![j].scanned = {run[j].lot},
                                   ![j].todo = {[lot |-> run[j].lot, count |-> 0]}]
             /\ \E i \in Seat : work' = [work EXCEPT ![<<j, i>>].pc = "take"]
    <3>1. work' \in [Runner -> WorkState]
      BY <2>3, GoShape DEF Go, Runner, PCs, Resting
    <3>2. run[j].lot \in Lot
      BY <1>4 DEF ResetLot, PrepareInv, PrepareOf, Preparing, ManualInv, ManualOf
    <3>3. [lot |-> run[j].lot, count |-> 0] \in Candidate
      BY <3>2, OffShape DEF Candidate
    <3>4. run' \in [Run -> RunState]
      <4>1. {run[j].lot} \in SUBSET Lot /\ {[lot |-> run[j].lot, count |-> 0]} \in SUBSET Candidate
        BY <3>2, <3>3
      <4>2. QED
        BY ZenonT(60), <1>0, <2>3, <4>1, RunShape
    <3>5. QED
      BY <1>4, <2>1, <3>1, <3>4 DEF ResetLot
  <2>4. QED
    BY <1>4, <2>2, <2>3 DEF ResetLot
<1>5. CASE ClearLot(j)
  BY ZenonT(60), <1>0, <1>5, RunShape DEF ClearLot
<1>6. CASE Abort(j) \/ CompleteSuccess(j) \/ CompleteFails(j)
  <2>1. run' \in [Run -> RunState]
    <3>1. \/ run' = [run EXCEPT ![j].phase = "idle"]
          \/ run' = [run EXCEPT ![j].phase = "failing"]
          \/ run' = [run EXCEPT ![j].phase = "idle", ![j].row = "success"]
      BY <1>6 DEF Abort, CompleteSuccess, CompleteFails
    <3>2. /\ [run EXCEPT ![j].phase = "idle"] \in [Run -> RunState]
          /\ [run EXCEPT ![j].phase = "failing"] \in [Run -> RunState]
      BY ZenonT(60), <1>0, RunShape
    <3>3. [run EXCEPT ![j].phase = "idle", ![j].row = "success"] \in [Run -> RunState]
      BY ZenonT(60), <1>0, RunShape
    <3>4. QED
      BY SMTT(60), <3>1, <3>2, <3>3
  <2>2. QED
    BY <1>6, <2>1 DEF Abort, CompleteSuccess, CompleteFails, tables
<1>7. CASE CompleteFailure(j)
  <2>1. PICK row \in {run[j].row, "failed"} :
          run' = [run EXCEPT ![j].phase = "idle", ![j].row = row]
    BY <1>7 DEF CompleteFailure
  <2>2. row \in Rows
    BY <1>0, <2>1 DEF RunState
  <2>3. QED
    BY ZenonT(60), <1>0, <1>7, <2>1, <2>2, RunShape DEF CompleteFailure, tables
<1>8. QED
  BY <1>1, <1>2, <1>3, <1>4, <1>5, <1>6, <1>7 DEF RunStep

\* The statements of a runner and its way keep the types.
LEMMA RunnerShapeStep ==
  ASSUME Shape, NEW r \in Runner, RunnerStep(r) \/ Throw(r) \/ Reject(r)
  PROVE  Shape'
<1> USE DEF Shape
<1>0. /\ NoLinks(r) \in PCs /\ NoImages(r) \in PCs /\ Tiers \subseteq PCs /\ Writes \subseteq PCs
      /\ {"fetch", "take", "queued", "mmember", "log", "recover"} \subseteq PCs
  BY DEF NoLinks, NoImages, PCs, Tiers, Writes, Mobile, Resting
<1>1. r[1] \in Run /\ run[r[1]] \in RunState
  BY DEF Runner
<1>2. CASE Take(r)
  <2>1. CASE work' = [work EXCEPT ![r] = Off] /\ UNCHANGED run
    BY <1>2, <2>1, OffShape DEF Take, tables
  <2>2. ASSUME NEW c \in run[r[1]].todo,
               work' = [work EXCEPT ![r] = [pc |-> "fetch", lot |-> c.lot,
                                            count |-> c.count, store |-> {}]],
               run' = [run EXCEPT ![r[1]].todo = @ \ {c}]
        PROVE  Shape'
    <3>1. c \in Candidate /\ run[r[1]].todo \ {c} \in SUBSET Candidate
      BY SMTT(60), <1>1, <2>2 DEF RunState
    <3>2. [pc |-> "fetch", lot |-> c.lot, count |-> c.count, store |-> {}] \in WorkState
      BY <1>0, <3>1 DEF WorkState, Candidate
    <3>3. run' \in [Run -> RunState]
      BY ZenonT(60), <1>1, <2>2, <3>1, RunShape
    <3>4. QED
      BY <1>2, <2>2, <3>2, <3>3 DEF Take, tables
  <2>3. QED
    BY <1>2, <2>1, <2>2 DEF Take
<1>3. CASE Fetch(r)
  <2>1. \E pc \in PCs : Go(r, pc)
    BY <1>0, <1>3 DEF Fetch, Acquire, Tiers
  <2>2. sem' \in [count : Int, queue : Seq(Runner)]
    BY <1>3 DEF Fetch, Acquire
  <2>3. QED
    BY <1>3, <2>1, <2>2, GoShape DEF Fetch, tables
<1>4. CASE Mmember(r)
  <2>1. PICK pc \in PCs :
          \/ /\ sem.queue = << >>
             /\ sem' = [sem EXCEPT !.count = @ - 1]
             /\ work' = [work EXCEPT ![r].pc = pc]
          \/ /\ sem.queue # << >>
             /\ sem' = [sem EXCEPT !.queue = Tail(@)]
             /\ work' = [work EXCEPT ![r].pc = pc, ![Head(sem.queue)].pc = "mmember"]
    BY <1>0, <1>4 DEF Mmember, Tiers
  <2>2. sem.queue \in Seq(Runner) /\ sem.count \in Int
    OBVIOUS
  <2>3. sem' \in [count : Int, queue : Seq(Runner)]
    <3>1. CASE sem' = [sem EXCEPT !.count = @ - 1]
      BY <2>2, <3>1
    <3>2. CASE sem.queue # << >> /\ sem' = [sem EXCEPT !.queue = Tail(@)]
      <4>1. Tail(sem.queue) \in Seq(Runner)
        BY <2>2, <3>2
      <4>2. QED
        BY <3>2, <4>1
    <3>3. QED
      BY <2>1, <3>1, <3>2
  <2>4. work' \in [Runner -> WorkState]
    <3>1. [work EXCEPT ![r].pc = pc] \in [Runner -> WorkState]
      BY DEF WorkState
    <3>2. CASE work' = [work EXCEPT ![r].pc = pc]
      BY <3>1, <3>2
    <3>3. CASE sem.queue # << >> /\ work' = [work EXCEPT ![r].pc = pc, ![Head(sem.queue)].pc = "mmember"]
      <4>1. Head(sem.queue) \in Runner
        BY <2>2, <3>3
      <4>2. work' = [[work EXCEPT ![r].pc = pc] EXCEPT ![Head(sem.queue)].pc = "mmember"]
        BY <3>3
      <4>3. QED
        BY ZenonT(60), <1>0, <3>1, <4>1, <4>2 DEF WorkState
    <3>4. QED
      BY <2>1, <3>2, <3>3
  <2>5. QED
    BY <1>4, <2>3, <2>4 DEF Mmember, tables
<1>5. CASE Inspect(r)
  <2>1. PICK good \in SUBSET Image :
          \/ work' = [work EXCEPT ![r].pc = "insert", ![r].store = good]
          \/ \E pc \in PCs : Go(r, pc)
    BY <1>0, <1>5 DEF Inspect, GoodImages, Tiers
  <2>2. work' \in [Runner -> WorkState]
    <3>1. CASE work' = [work EXCEPT ![r].pc = "insert", ![r].store = good]
      BY ZenonT(60), <1>0, <3>1 DEF WorkState, Writes
    <3>2. CASE \E pc \in PCs : Go(r, pc)
      BY <3>2, GoShape
    <3>3. QED
      BY <2>1, <3>1, <3>2
  <2>3. QED
    BY <1>5, <2>2 DEF Inspect, tables
<1>6. CASE ReplaceLotImages(r)
  <2>1. \E pc \in PCs : Go(r, pc)
    BY <1>0, <1>6 DEF ReplaceLotImages, Writes
  <2>2. QED
    BY <1>6, <2>1, GoShape, WriteShape DEF ReplaceLotImages
<1>7. CASE MarkOk(r) \/ MarkMissing(r)
  <2>1. run' \in [Run -> RunState]
    <3>1. run[r[1]].ok + 1 \in Nat /\ run[r[1]].missing + 1 \in Nat
      BY <1>1 DEF RunState
    <3>2. /\ [run EXCEPT ![r[1]].ok = run[r[1]].ok + 1] \in [Run -> RunState]
          /\ [run EXCEPT ![r[1]].missing = run[r[1]].missing + 1] \in [Run -> RunState]
      BY <1>1, <3>1, RunShape
    <3>3. QED
      BY <1>7, <3>2 DEF MarkOk, MarkMissing
  <2>2. QED
    BY ZenonT(60), <1>7, <2>1, OffShape, WriteShape DEF MarkOk, MarkMissing
<1>8. CASE Throw(r)
  <2>1. work' \in [Runner -> WorkState]
    BY ZenonT(60), <1>0, <1>8 DEF Throw, WorkState
  <2>2. lots' \in [Lot -> LotRow] /\ images' \in [Lot -> SUBSET Image]
    BY <1>8, WriteShape DEF Throw, tables
  <2>3. QED
    BY <1>8, <2>1, <2>2 DEF Throw
<1>9. CASE LogPhotoAttempt(r)
  BY <1>0, <1>9, GoShape DEF LogPhotoAttempt, tables
<1>10. CASE Reject(r)
  <2>1. (IF run[r[1]].phase = "running" THEN "failing" ELSE run[r[1]].phase) \in Phases
    BY <1>1 DEF Phases, RunState
  <2>2. run' \in [Run -> RunState]
    BY <1>1, <1>10, <2>1, RunShape DEF Reject
  <2>3. QED
    BY <1>10, <2>2, OffShape, WriteShape DEF Reject
<1>11. QED
  BY <1>2, <1>3, <1>4, <1>5, <1>6, <1>7, <1>8, <1>9, <1>10 DEF RunnerStep

\* The rest of the process keeps the types.
LEMMA OtherShapeStep ==
  ASSUME Shape, Crash \/ (\E l \in Lot : UpsertUrl(l)) \/ Hydrate \/ UNCHANGED vars
  PROVE  Shape'
<1> USE DEF Shape
<1>0. [status |-> "unknown", count |-> 0] \in LotRow /\ [status |-> "ok", count |-> 0] \in LotRow
  BY OffShape DEF LotRow
<1>1. CASE Crash
  <2>1. \A j \in Run : [run[j] EXCEPT !.phase = "idle", !.todo = {}] \in RunState
    BY ZenonT(60) DEF RunState, Phases
  <2>2. [count |-> 0, queue |-> << >>] \in [count : Int, queue : Seq(Runner)]
    OBVIOUS
  <2>3. QED
    BY <1>1, <2>1, <2>2, OffShape DEF Crash, tables
<1>2. CASE \E l \in Lot : UpsertUrl(l)
  BY <1>0, <1>2 DEF UpsertUrl
<1>3. CASE Hydrate
  BY <1>0, <1>3 DEF Hydrate
<1>4. CASE UNCHANGED vars
  BY <1>4 DEF vars
<1>5. QED
  BY <1>1, <1>2, <1>3, <1>4

-----------------------------------------------------------------------------
(* The steps of a runner, in the four ways they matter to its run. *)

\* In the middle of a lot: each runner keeps its lot, and stays at work or at
\* rest as it was.  The run, the locks and the lots of the others are as before.
Onward ==
  /\ UNCHANGED <<lock, run>>
  /\ \A s \in Runner :
       /\ work'[s].lot = work[s].lot
       /\ Rests(s) => work'[s] = work[s]
       /\ ~Rests(s) => work'[s].pc \notin Resting

\* Runner r leaves a lot, or finds none: it rests.
Rested(r, pc) == work' = [work EXCEPT ![r] = [Off EXCEPT !.pc = pc]]

\* Every step of a runner goes on with its lot, takes one, ends one or rejects.
LEMMA OnwardStep ==
  ASSUME Shape, SemInv, NEW r \in Runner,
         \/ Fetch(r) \/ Mmember(r) \/ Inspect(r) \/ ReplaceLotImages(r)
         \/ LogPhotoAttempt(r) \/ Throw(r)
  PROVE  Onward /\ ~Rests(r)
<1>0. /\ NoLinks(r) \notin Resting /\ NoImages(r) \notin Resting
      /\ {"fetch", "queued", "mmember", "log", "recover"} \cap Resting = {}
      /\ Tiers \cap Resting = {} /\ Writes \cap Resting = {}
  BY DEF NoLinks, NoImages, Resting, Tiers, Writes
<1>1. ~Rests(r)
  BY <1>0 DEF Rests, Fetch, Mmember, Inspect, ReplaceLotImages, LogPhotoAttempt, Throw, Writes
<1>2. ASSUME NEW pc \in PCs, pc \notin Resting, Go(r, pc), UNCHANGED <<lock, run>>
      PROVE  Onward
  BY <1>1, <1>2 DEF Shape, WorkState, Onward, Go, Rests
<1>3. CASE Fetch(r)
  <2>1. \E pc \in PCs : pc \notin Resting /\ Go(r, pc)
    BY <1>0, <1>3 DEF Fetch, Acquire, Tiers, NoLinks, PCs, Mobile, Writes
  <2>2. QED
    BY <1>1, <1>2, <1>3, <2>1 DEF Fetch
<1>4. CASE Mmember(r)
  <2>1. PICK pc \in PCs :
          /\ pc \notin Resting
          /\ \/ work' = [work EXCEPT ![r].pc = pc]
             \/ /\ sem.queue # << >>
                /\ work' = [work EXCEPT ![r].pc = pc, ![Head(sem.queue)].pc = "mmember"]
    BY <1>0, <1>4 DEF Mmember, Tiers, NoLinks, PCs, Writes
  <2>2. CASE work' = [work EXCEPT ![r].pc = pc]
    BY <1>1, <1>2, <1>4, <2>1, <2>2 DEF Mmember, Go
  <2>3. CASE sem.queue # << >> /\ work' = [work EXCEPT ![r].pc = pc, ![Head(sem.queue)].pc = "mmember"]
    <3>1. Head(sem.queue) = sem.queue[1] /\ 1 \in 1..Len(sem.queue) /\ Head(sem.queue) \in Runner
      BY <2>3 DEF Shape
    <3>2. ~Rests(Head(sem.queue))
      BY <3>1 DEF SemInv, Rests, Resting
    <3>3. work' = [[work EXCEPT ![r].pc = pc] EXCEPT ![Head(sem.queue)].pc = "mmember"]
      BY <2>3
    <3>4. \A s \in Runner : /\ work'[s].lot = work[s].lot
                            /\ Rests(s) => work'[s] = work[s]
                            /\ ~Rests(s) => work'[s].pc \notin Resting
      BY <1>0, <1>1, <2>1, <3>1, <3>2, <3>3 DEF Shape, WorkState, Rests
    <3>5. QED
      BY <1>1, <1>4, <3>4 DEF Mmember, Onward
  <2>4. QED
    BY <2>1, <2>2, <2>3
<1>5. CASE Inspect(r)
  <2>1. \/ \E good \in SUBSET Image : work' = [work EXCEPT ![r].pc = "insert", ![r].store = good]
        \/ \E pc \in PCs : pc \notin Resting /\ Go(r, pc)
    BY <1>0, <1>5 DEF Inspect, GoodImages, Tiers, NoImages, PCs, Writes
  <2>2. ASSUME NEW good \in SUBSET Image,
               work' = [work EXCEPT ![r].pc = "insert", ![r].store = good]
        PROVE  Onward
    <3>1. work' = [work EXCEPT ![r] = [work[r] EXCEPT !.pc = "insert", !.store = good]]
      BY <2>2
    <3>2. work[r] \in WorkState
      BY DEF Shape
    <3>3. work'[r].lot = work[r].lot /\ work'[r].pc = "insert"
      BY <3>1, <3>2 DEF WorkState, Shape
    <3>4. \A s \in Runner : s # r => work'[s] = work[s]
      BY <3>1 DEF Shape
    <3>5. QED
      BY <1>1, <1>5, <3>3, <3>4 DEF Inspect, Onward, Rests, Resting
  <2>3. QED
    BY <1>1, <1>2, <1>5, <2>1, <2>2 DEF Inspect
<1>6. CASE ReplaceLotImages(r)
  <2>1. \E pc \in PCs : pc \notin Resting /\ Go(r, pc)
    BY <1>0, <1>6 DEF ReplaceLotImages, PCs, Writes
  <2>2. QED
    BY <1>1, <1>2, <1>6, <2>1 DEF ReplaceLotImages
<1>7. CASE LogPhotoAttempt(r)
  BY <1>0, <1>1, <1>2, <1>7 DEF LogPhotoAttempt, PCs
<1>8. CASE Throw(r)
  BY <1>0, <1>1, <1>8 DEF Throw, Onward, Shape, WorkState, Rests
<1>9. QED
  BY <1>1, <1>3, <1>4, <1>5, <1>6, <1>7, <1>8

-----------------------------------------------------------------------------
(* The structure: runs, their lists and the places of their runners. *)

\* A step that leaves a run and its runners alone keeps what is said of it.
LEMMA Elsewhere ==
  ASSUME NEW k \in Run, run'[k] = run[k], \A i \in Seat : work'[<<k, i>>] = work[<<k, i>>],
         PrepareOf(k), ListOf(k), ManualOf(k)
  PROVE  PrepareOf(k)' /\ ListOf(k)' /\ ManualOf(k)'
<1>1. \A i \in Seat : Rests(<<k, i>>)' <=> Rests(<<k, i>>)
  BY DEF Rests
<1>2. PrepareOf(k)' /\ (Manual(k)' <=> Manual(k))
  BY DEF PrepareOf, AllOff, Manual
<1>3. ListOf(k)'
  BY <1>1 DEF ListOf
<1>4. ManualOf(k)'
  BY <1>1, <1>2 DEF ManualOf
<1>5. QED
  BY <1>2, <1>3, <1>4

\* So does the structure: nothing runs.
LEMMA StructureInit == Init => Structure
<1>1. Off.pc = "off" /\ Off = [Off EXCEPT !.pc = Off.pc]
  BY OffShape
<1>2. SUFFICES ASSUME Init PROVE Structure
  OBVIOUS
<1>3. \A r \in Runner : work[r] = Off /\ work[r].pc = "off" /\ Rests(r)
  BY <1>1, <1>2 DEF Init, Rests, Resting
<1>4. \A j \in Run, i \in Seat : <<j, i>> \in Runner
  BY DEF Runner
<1>5. \A j \in Run : /\ run[j].phase = "idle" /\ run[j].todo = {} /\ ~Manual(j) /\ lock # j
  BY <1>2, PhotoAssumption DEF Init, FreshRun, Manual
<1>6. QED
  BY <1>1, <1>3, <1>4, <1>5 DEF Structure, RestInv, LockInv, PrepareInv, PrepareOf, ListInv, ListOf, LiveInv,
     ManualInv, ManualOf, Preparing

\* While a lot is processed its run stays as it is.
LEMMA StructureOnward ==
  ASSUME Shape, Structure, Onward
  PROVE  Structure'
<1>1. \A s \in Runner : /\ Rests(s)' <=> Rests(s)
                        /\ work'[s].lot = work[s].lot
                        /\ Rests(s) => work'[s] = work[s]
                        /\ work'[s].pc = "off" <=> work[s].pc = "off"
  BY DEF Onward, Rests, Resting
<1>2. \A j \in Run, i \in Seat : <<j, i>> \in Runner
  BY DEF Runner
<1>3. run' = run /\ lock' = lock
  BY DEF Onward
<1>4. RestInv'
  BY <1>1 DEF Structure, RestInv
<1>5. LockInv' /\ PrepareInv'
  BY <1>1, <1>2, <1>3 DEF Structure, LockInv, PrepareInv, PrepareOf, AllOff, Manual
<1>6. ListInv'
  BY <1>1, <1>2, <1>3 DEF Structure, ListInv, ListOf
<1>7. LiveInv' /\ ManualInv'
  BY <1>1, <1>2, <1>3 DEF Structure, LiveInv, ManualInv, ManualOf, Manual
<1>8. QED
  BY <1>4, <1>5, <1>6, <1>7 DEF Structure

\* A runner that has a candidate takes it off the list; one that has none is off.
LEMMA StructureTake ==
  ASSUME Shape, Structure, NEW r \in Runner, Take(r)
  PROVE  Structure'
<1> DEFINE j == r[1]
<1>0. j \in Run /\ r = <<j, r[2]>> /\ r[2] \in Seat /\ \A k \in Run, i \in Seat : <<k, i>> \in Runner
  BY DEF Runner
<1>1. lock' = lock /\ Rests(r) /\ work[r].pc = "take"
  BY DEF Take, Rests, Resting
<1>2. CASE work' = [work EXCEPT ![r] = Off] /\ run' = run
  <2>1. /\ work'[r] = Off /\ work'[r].pc = "off" /\ Rests(r)'
        /\ \A s \in Runner : s # r => work'[s] = work[s]
    BY <1>2, OffShape DEF Shape, Rests, Resting
  <2>2. \A s \in Runner : /\ Rests(s)' <=> Rests(s)
                          /\ ~Rests(s) => work'[s] = work[s]
                          /\ work[s].pc = "off" => work'[s].pc = "off"
    BY <1>1, <2>1 DEF Rests
  <2>3. RestInv'
    BY <2>1, OffShape DEF Structure, RestInv, Rests
  <2>4. LockInv' /\ PrepareInv'
    BY <1>0, <1>1, <1>2, <2>2 DEF Structure, LockInv, PrepareInv, PrepareOf, AllOff, Manual
  <2>5. ListInv'
    BY <1>0, <1>2, <2>2 DEF Structure, ListInv, ListOf
  <2>6. LiveInv' /\ ManualInv'
    BY <1>0, <1>2, <2>1, <2>2 DEF Structure, LiveInv, ManualInv, ManualOf, Manual
  <2>7. QED
    BY <2>3, <2>4, <2>5, <2>6 DEF Structure
<1>3. ASSUME NEW c \in run[j].todo,
             work' = [work EXCEPT ![r] = [pc |-> "fetch", lot |-> c.lot,
                                          count |-> c.count, store |-> {}]],
             run' = [run EXCEPT ![j].todo = @ \ {c}]
      PROVE  Structure'
  <2>1. /\ work'[r].lot = c.lot /\ work'[r].pc = "fetch" /\ ~Rests(r)'
        /\ \A s \in Runner : s # r => work'[s] = work[s] /\ (Rests(s)' <=> Rests(s))
    BY <1>3 DEF Shape, Rests, Resting
  <2>2. /\ run'[j].todo = run[j].todo \ {c}
        /\ \A k \in Run : /\ run'[k].phase = run[k].phase /\ run'[k].mode = run[k].mode
                          /\ run'[k].lot = run[k].lot /\ run'[k].ok = run[k].ok
                          /\ run'[k].missing = run[k].missing /\ run'[k].row = run[k].row
                          /\ k # j => run'[k] = run[k]
    BY <1>0, <1>3 DEF Shape, RunState
  <2>3. c.lot \in Lot
    BY <1>0, <1>3 DEF Shape, RunState, Candidate
  <2>4. RestInv'
    BY <2>1, <2>3 DEF Structure, RestInv
  <2>5. LockInv'
    BY <1>1, <2>2 DEF Structure, LockInv
  <2>6. run[j].phase \notin Preparing
    BY <1>0, <1>1 DEF Structure, PrepareInv, PrepareOf, AllOff
  <2>7. PrepareInv'
    <3>1. \A k \in Run : k # j => /\ AllOff(k)' <=> AllOff(k)
                                  /\ run'[k].todo = run[k].todo
      BY <1>0, <2>1, <2>2 DEF AllOff
    <3>2. QED
      BY <2>2, <2>6, <3>1 DEF Structure, PrepareInv, PrepareOf, Manual
  <2>8. ListInv'
    <3>1. SUFFICES ASSUME NEW k \in Run
                   PROVE  /\ \A d, e \in run'[k].todo : d.lot = e.lot => d = e
                          /\ \A i \in Seat : ~Rests(<<k, i>>)' =>
                               /\ \A d \in run'[k].todo : d.lot # work'[<<k, i>>].lot
                               /\ \A m \in Seat : m # i /\ ~Rests(<<k, m>>)' =>
                                    work'[<<k, i>>].lot # work'[<<k, m>>].lot
      BY DEF ListInv, ListOf
    <3>2. CASE k # j
      <4>1. run'[k].todo = run[k].todo /\ \A i \in Seat : <<k, i>> # r
        BY <1>0, <2>2, <3>2
      <4>2. QED
        BY <1>0, <2>1, <3>2, <4>1 DEF Structure, ListInv, ListOf
    <3>3. CASE k = j
      <4>1. \A i \in Seat : i # r[2] => <<k, i>> # r
        BY <1>0, <3>3
      <4>2. \A d \in run[j].todo : d.lot = c.lot => d = c
        BY <1>0, <1>3 DEF Structure, ListInv, ListOf
      <4>3. \A i \in Seat : i # r[2] /\ ~Rests(<<k, i>>)' => work'[<<k, i>>].lot # c.lot
        BY <1>0, <1>3, <2>1, <3>3, <4>1 DEF Structure, ListInv, ListOf
      <4>4. \A d, e \in run'[k].todo : d.lot = e.lot => d = e
        BY <1>0, <2>2, <3>3 DEF Structure, ListInv, ListOf
      <4>5. ASSUME NEW i \in Seat, ~Rests(<<k, i>>)'
            PROVE  /\ \A d \in run'[k].todo : d.lot # work'[<<k, i>>].lot
                   /\ \A m \in Seat : m # i /\ ~Rests(<<k, m>>)' =>
                        work'[<<k, i>>].lot # work'[<<k, m>>].lot
        <5>1. CASE i = r[2]
          BY <1>0, <2>1, <2>2, <3>3, <4>2, <4>3, <5>1
        <5>2. CASE i # r[2]
          <6>1. work'[<<k, i>>] = work[<<k, i>>] /\ ~Rests(<<k, i>>)
            BY <1>0, <2>1, <4>1, <4>5, <5>2
          <6>2. \A d \in run[j].todo : d.lot # work[<<k, i>>].lot
            BY <1>0, <3>3, <6>1 DEF Structure, ListInv, ListOf
          <6>3. ASSUME NEW m \in Seat, m # i, ~Rests(<<k, m>>)'
                PROVE  work'[<<k, i>>].lot # work'[<<k, m>>].lot
            <7>1. CASE m = r[2]
              BY <1>0, <2>1, <3>3, <4>3, <4>5, <5>2, <7>1
            <7>2. CASE m # r[2]
              BY <1>0, <2>1, <3>3, <4>1, <6>1, <6>3, <7>2 DEF Structure, ListInv, ListOf
            <7>3. QED
              BY <7>1, <7>2
          <6>4. QED
            BY <2>2, <3>3, <6>1, <6>2, <6>3
        <5>3. QED
          BY <5>1, <5>2
      <4>6. QED
        BY <4>4, <4>5
    <3>4. QED
      BY <3>2, <3>3
  <2>9. LiveInv'
    BY <1>0, <1>1, <2>1, <2>2 DEF Structure, LiveInv, Runner
  <2>10. ManualInv'
    <3>1. SUFFICES ASSUME NEW k \in Run, Manual(k)'
                   PROVE  /\ run'[k].lot \in Lot
                          /\ run'[k].todo # {} => run'[k].phase = "running"
                          /\ \A d \in run'[k].todo : d.lot = run'[k].lot
                          /\ \A i \in Seat : work'[<<k, i>>].pc # "off" =>
                               /\ run'[k].phase = "running"
                               /\ \A m \in Seat : m # i => work'[<<k, m>>].pc = "off"
                               /\ ~Rests(<<k, i>>)' =>
                                    run'[k].todo = {} /\ work'[<<k, i>>].lot = run'[k].lot
      BY DEF ManualInv, ManualOf
    <3>2. Manual(k) /\ \A i \in Seat : <<k, i>> # r => work'[<<k, i>>] = work[<<k, i>>]
      BY <1>0, <2>1, <2>2, <3>1 DEF Manual
    <3>3. CASE k # j
      <4>1. run'[k] = run[k] /\ \A i \in Seat : work'[<<k, i>>] = work[<<k, i>>]
        BY <1>0, <2>2, <3>2, <3>3
      <4>2. QED
        BY <3>1, <3>2, <4>1 DEF Structure, ManualInv, ManualOf, Rests
    <3>4. CASE k = j
      <4>1. /\ \A m \in Seat : m # r[2] => work[<<k, m>>].pc = "off" /\ work'[<<k, m>>].pc = "off"
            /\ run[k].phase = "running"
        BY <1>0, <1>1, <3>2, <3>4 DEF Structure, ManualInv, ManualOf
      <4>2. run'[k].todo = {} /\ c.lot = run[k].lot
        BY <1>0, <1>3, <2>2, <3>2, <3>4 DEF Structure, ListInv, ListOf, ManualInv, ManualOf
      <4>3. QED
        BY <1>0, <2>1, <2>2, <3>2, <3>4, <4>1, <4>2 DEF Structure, ManualInv, ManualOf
    <3>5. QED
      BY <3>3, <3>4
  <2>11. QED
    BY <2>4, <2>5, <2>7, <2>8, <2>9, <2>10 DEF Structure
<1>4. QED
  BY <1>2, <1>3 DEF Take

\* What a run's record keeps when a runner ends a lot: everything the structure
\* speaks of, except that a rejected run is not running any more.
SameRuns ==
  \A k \in Run : /\ run'[k].mode = run[k].mode /\ run'[k].lot = run[k].lot
                 /\ run'[k].todo = run[k].todo

\* A runner that ends a lot rests, ready for the next one or off.
LEMMA StructureEnd ==
  ASSUME Shape, Structure, NEW r \in Runner, MarkOk(r) \/ MarkMissing(r) \/ Reject(r)
  PROVE  Structure'
<1> DEFINE j == r[1]
<1>0. j \in Run /\ r = <<j, r[2]>> /\ r[2] \in Seat /\ \A k \in Run, i \in Seat : <<k, i>> \in Runner
  BY DEF Runner
<1>1. lock' = lock /\ ~Rests(r) /\ work[r].pc # "off"
  BY DEF MarkOk, MarkMissing, Reject, Rests, Resting
<1>2. /\ SameRuns
      /\ \A k \in Run : k # j => run'[k] = run[k]
      /\ run'[j].row = run[j].row
      /\ \/ run'[j].phase = run[j].phase
         \/ run[j].phase = "running" /\ run'[j].phase = "failing" /\ MayReject /\ work'[r] = Off
  <2>1. CASE MarkOk(r)
    BY <1>0, <2>1 DEF MarkOk, Shape, RunState, SameRuns
  <2>2. CASE MarkMissing(r)
    BY <1>0, <2>2 DEF MarkMissing, Shape, RunState, SameRuns
  <2>3. CASE Reject(r)
    BY <1>0, <2>3 DEF Reject, Shape, RunState, SameRuns
  <2>4. QED
    BY <2>1, <2>2, <2>3
<1>3. /\ work'[r] = Off \/ work'[r] = [Off EXCEPT !.pc = "take"]
      /\ \A s \in Runner : s # r => work'[s] = work[s]
  BY DEF MarkOk, MarkMissing, Reject, Shape
<1>4. /\ Rests(r)' /\ work'[r] = [Off EXCEPT !.pc = work'[r].pc]
      /\ \A s \in Runner : /\ s # r => work'[s] = work[s] /\ (Rests(s)' <=> Rests(s))
                           /\ ~Rests(s)' => ~Rests(s) /\ work'[s] = work[s]
                           /\ work[s].pc = "off" => work'[s].pc = "off"
  BY <1>1, <1>3, OffShape DEF Rests, Resting
<1>5. RestInv'
  BY <1>4 DEF Structure, RestInv
<1>6. LockInv'
  BY <1>0, <1>1, <1>2 DEF Structure, LockInv
<1>7. run[j].phase \notin Preparing
  BY <1>0, <1>1 DEF Structure, PrepareInv, PrepareOf, AllOff
<1>8. PrepareInv'
  <2>1. SUFFICES ASSUME NEW k \in Run, run'[k].phase \in Preparing
                 PROVE  /\ AllOff(k)' /\ run'[k].todo = {}
                        /\ run'[k].ok = 0 /\ run'[k].missing = 0 /\ run'[k].row = "none"
                        /\ Manual(k)' <=> run'[k].phase # "create"
    BY DEF PrepareInv, PrepareOf
  <2>2. k # j /\ run'[k] = run[k]
    BY <1>2, <1>7, <2>1 DEF Preparing
  <2>3. AllOff(k)' <=> AllOff(k)
    BY <1>0, <1>4, <2>2 DEF AllOff
  <2>4. QED
    BY <2>1, <2>2, <2>3 DEF Structure, PrepareInv, PrepareOf, Manual
<1>9. ListInv'
  BY <1>0, <1>2, <1>4 DEF Structure, ListInv, ListOf, SameRuns
<1>10. LiveInv'
  <2>1. SUFFICES ASSUME NEW s \in Runner, work'[s].pc # "off"
                 PROVE  MayReject \/ run'[s[1]].phase = "running"
    BY DEF LiveInv
  <2>2. s[1] \in Run /\ work[s].pc # "off"
    BY <1>4, <2>1 DEF Runner
  <2>3. MayReject \/ run[s[1]].phase = "running"
    BY <2>2 DEF Structure, LiveInv
  <2>4. QED
    BY <1>2, <2>2, <2>3
<1>11. ManualInv'
  <2>1. SUFFICES ASSUME NEW k \in Run, Manual(k)'
                 PROVE  /\ run'[k].lot \in Lot
                        /\ run'[k].todo # {} => run'[k].phase = "running"
                        /\ \A d \in run'[k].todo : d.lot = run'[k].lot
                        /\ \A i \in Seat : work'[<<k, i>>].pc # "off" =>
                             /\ run'[k].phase = "running"
                             /\ \A m \in Seat : m # i => work'[<<k, m>>].pc = "off"
                             /\ ~Rests(<<k, i>>)' =>
                                  run'[k].todo = {} /\ work'[<<k, i>>].lot = run'[k].lot
    BY DEF ManualInv, ManualOf
  <2>2. Manual(k) /\ run'[k].todo = run[k].todo /\ run'[k].lot = run[k].lot
    BY <1>2, <2>1 DEF Manual, SameRuns
  <2>3. CASE k # j
    <3>1. run'[k] = run[k] /\ \A i \in Seat : work'[<<k, i>>] = work[<<k, i>>] /\ <<k, i>> # r
      BY <1>0, <1>2, <1>3, <2>3
    <3>2. QED
      BY <1>0, <1>4, <2>2, <3>1 DEF Structure, ManualInv, ManualOf
  <2>4. CASE k = j
    <3>1. /\ \A m \in Seat : m # r[2] => work'[<<k, m>>].pc = "off"
          /\ run[k].phase = "running" /\ run[k].todo = {}
      BY <1>0, <1>1, <1>4, <2>2, <2>4 DEF Structure, ManualInv, ManualOf
    <3>2. work'[<<k, r[2]>>].pc # "off" => run'[k].phase = "running"
      BY <1>0, <1>2, <2>4, <3>1, OffShape
    <3>3. \A i \in Seat : i # r[2] => work'[<<k, i>>].pc = "off" /\ Rests(<<k, i>>)'
      BY <3>1 DEF Rests, Resting
    <3>4. ~(~Rests(<<k, r[2]>>)')
      BY <1>0, <1>4, <2>4
    <3>5. QED
      BY <1>0, <2>2, <2>4, <3>1, <3>2, <3>3, <3>4 DEF Structure, ManualInv, ManualOf
  <2>5. QED
    BY <2>3, <2>4
<1>12. QED
  BY <1>5, <1>6, <1>8, <1>9, <1>10, <1>11 DEF Structure

\* A run that takes the locks starts from an empty slot.
LEMMA StructureStart ==
  ASSUME Shape, Structure, NEW j \in Run, Start(j) \/ (\E l \in Lot : StartManual(j, l))
  PROVE  Structure'
<1>0. \A k \in Run, i \in Seat : <<k, i>> \in Runner
  BY DEF Runner
<1>1. /\ lock = NoRun /\ lock' = j /\ work' = work /\ run[j].phase = "idle"
      /\ \A i \in Seat : work[<<j, i>>] = Off
  BY DEF Start, StartManual
<1>2. PICK mode \in Modes, l \in Lot \cup {NoLot}, phase \in {"create", "reset"} :
        /\ run' = [run EXCEPT ![j] = FreshRun(mode, l, phase)]
        /\ mode = "manual" <=> phase # "create"
        /\ mode = "manual" => l \in Lot
  <2>1. CASE Start(j)
    <3>1. PICK mode \in BulkModes : run' = [run EXCEPT ![j] = FreshRun(mode, NoLot, "create")]
      BY <2>1 DEF Start
    <3>2. QED
      BY <3>1 DEF BulkModes, Modes
  <2>2. CASE \E l \in Lot : StartManual(j, l)
    BY <2>2 DEF StartManual, Modes
  <2>3. QED
    BY <2>1, <2>2
<1>3. /\ \A k \in Run : k # j => run'[k] = run[k]
      /\ run'[j].phase = phase /\ run'[j].mode = mode /\ run'[j].lot = l /\ run'[j].todo = {}
      /\ run'[j].ok = 0 /\ run'[j].missing = 0 /\ run'[j].row = "none"
  BY <1>2 DEF Shape, FreshRun
<1>4. \A i \in Seat : work[<<j, i>>].pc = "off" /\ Rests(<<j, i>>)
  BY <1>1, OffShape DEF Rests, Resting
<1>5. RestInv' /\ \A s \in Runner : Rests(s)' <=> Rests(s)
  BY <1>1 DEF Structure, RestInv, Rests
<1>6. LockInv'
  BY <1>1, <1>2, <1>3, PhotoAssumption DEF Structure, LockInv
<1>7. PrepareInv'
  BY <1>0, <1>1, <1>2, <1>3, <1>4 DEF Structure, PrepareInv, PrepareOf, AllOff, Manual
<1>8. ListInv'
  BY <1>0, <1>1, <1>3, <1>4, <1>5 DEF Structure, ListInv, ListOf
<1>9. LiveInv'
  <2>1. SUFFICES ASSUME NEW s \in Runner, work[s].pc # "off"
                 PROVE  MayReject \/ run'[s[1]].phase = "running"
    BY <1>1 DEF LiveInv
  <2>2. s[1] \in Run /\ s[1] # j
    BY <1>4, <2>1 DEF Runner
  <2>3. QED
    BY <1>3, <2>1, <2>2 DEF Structure, LiveInv
<1>10. ManualInv'
  BY <1>0, <1>1, <1>2, <1>3, <1>4, <1>5 DEF Structure, ManualInv, ManualOf, Manual
<1>11. QED
  BY <1>5, <1>6, <1>7, <1>8, <1>9, <1>10 DEF Structure

\* A run that ends, well or not, has no runner at work unless it was rejected.
LEMMA StructureLeave ==
  ASSUME Shape, Structure, NEW j \in Run,
         ClearLot(j) \/ Abort(j) \/ CompleteSuccess(j) \/ CompleteFails(j) \/ CompleteFailure(j)
  PROVE  Structure'
<1>0. \A k \in Run, i \in Seat : <<k, i>> \in Runner
  BY DEF Runner
<1>1. /\ work' = work /\ SameRuns
      /\ \A k \in Run : k # j => run'[k] = run[k]
      /\ \/ run'[j].phase = "idle" /\ lock' = NoRun
         \/ run'[j].phase = "failing" /\ lock' = lock
      /\ run[j].phase # "idle"
      /\ (AllOff(j) /\ run[j].todo = {}) \/ run[j].phase = "failing"
  <2>1. CASE ClearLot(j) \/ Abort(j)
    <3>1. run' = [run EXCEPT ![j].phase = "idle"] /\ lock' = NoRun /\ work' = work
      BY <2>1 DEF ClearLot, Abort
    <3>2. run[j].phase \in Preparing
      BY <2>1 DEF ClearLot, Abort, Preparing
    <3>3. AllOff(j) /\ run[j].todo = {} /\ run[j].phase # "idle"
      BY <3>2 DEF Structure, PrepareInv, PrepareOf, Preparing
    <3>4. QED
      BY <3>1, <3>3 DEF SameRuns, Shape, RunState
  <2>2. CASE CompleteSuccess(j) \/ CompleteFails(j)
    <3>1. AllOff(j) /\ run[j].todo = {} /\ run[j].phase = "running" /\ work' = work
      BY <2>2, OffShape DEF CompleteSuccess, CompleteFails, AllOff
    <3>2. CASE CompleteSuccess(j)
      <4>1. run' = [run EXCEPT ![j].phase = "idle", ![j].row = "success"] /\ lock' = NoRun
        BY <3>2 DEF CompleteSuccess
      <4>2. QED
        BY <3>1, <4>1 DEF SameRuns, Shape, RunState
    <3>3. CASE CompleteFails(j)
      <4>1. run' = [run EXCEPT ![j].phase = "failing"] /\ lock' = lock
        BY <3>3 DEF CompleteFails
      <4>2. QED
        BY <3>1, <4>1 DEF SameRuns, Shape, RunState
    <3>4. QED
      BY <2>2, <3>2, <3>3
  <2>3. CASE CompleteFailure(j)
    <3>1. PICK row \in {run[j].row, "failed"} :
            run' = [run EXCEPT ![j].phase = "idle", ![j].row = row]
      BY <2>3 DEF CompleteFailure
    <3>2. QED
      BY <2>3, <3>1 DEF CompleteFailure, SameRuns, Shape, RunState
  <2>4. QED
    BY <2>1, <2>2, <2>3
<1>2. run'[j].phase \notin Preparing
  BY <1>1 DEF Preparing
<1>3. RestInv' /\ \A s \in Runner : Rests(s)' <=> Rests(s)
  BY <1>1 DEF Structure, RestInv, Rests
<1>4. LockInv'
  BY <1>1, PhotoAssumption DEF Structure, LockInv
<1>5. PrepareInv'
  BY <1>0, <1>1, <1>2 DEF Structure, PrepareInv, PrepareOf, AllOff, Manual
<1>6. ListInv'
  BY <1>0, <1>1, <1>3 DEF Structure, ListInv, ListOf, SameRuns
<1>7. LiveInv'
  <2>1. SUFFICES ASSUME NEW s \in Runner, work[s].pc # "off"
                 PROVE  MayReject \/ run'[s[1]].phase = "running"
    BY <1>1 DEF LiveInv
  <2>2. s[1] \in Run /\ s = <<s[1], s[2]>> /\ s[2] \in Seat
    BY DEF Runner
  <2>3. CASE s[1] = j
    BY <1>1, <2>1, <2>2, <2>3 DEF Structure, LiveInv, AllOff
  <2>4. CASE s[1] # j
    BY <1>1, <2>1, <2>2, <2>4 DEF Structure, LiveInv
  <2>5. QED
    BY <2>3, <2>4
<1>8. ManualInv'
  <2>1. SUFFICES ASSUME NEW k \in Run, Manual(k)'
                 PROVE  /\ run'[k].lot \in Lot
                        /\ run'[k].todo # {} => run'[k].phase = "running"
                        /\ \A d \in run'[k].todo : d.lot = run'[k].lot
                        /\ \A i \in Seat : work'[<<k, i>>].pc # "off" =>
                             /\ run'[k].phase = "running"
                             /\ \A m \in Seat : m # i => work'[<<k, m>>].pc = "off"
                             /\ ~Rests(<<k, i>>)' =>
                                  run'[k].todo = {} /\ work'[<<k, i>>].lot = run'[k].lot
    BY DEF ManualInv, ManualOf
  <2>2. Manual(k) /\ run'[k].todo = run[k].todo /\ run'[k].lot = run[k].lot
    BY <1>1, <2>1 DEF Manual, SameRuns
  <2>3. CASE k # j
    BY <1>0, <1>1, <1>3, <2>2, <2>3 DEF Structure, ManualInv, ManualOf
  <2>4. CASE k = j
    <3>1. run[k].todo = {} /\ \A i \in Seat : work[<<k, i>>].pc = "off"
      BY <1>1, <2>2, <2>4 DEF Structure, ManualInv, ManualOf, AllOff
    <3>2. QED
      BY <1>1, <2>2, <3>1 DEF Structure, ManualInv, ManualOf
  <2>5. QED
    BY <2>3, <2>4
<1>9. QED
  BY <1>3, <1>4, <1>5, <1>6, <1>7, <1>8 DEF Structure

\* A bulk run that has its candidates: one for each of the lots it scanned.
LEMMA FetchEffect ==
  ASSUME Shape, Structure, NEW j \in Run, FetchCandidates(j)
  PROVE  \E C \in SUBSET Lot :
           /\ Cardinality(C) <= BatchSize
           /\ run' = [run EXCEPT ![j].phase = "running", ![j].row = "running",
                                 ![j].scanned = C, ![j].todo = {AsCandidate(l) : l \in C}]
           /\ run'[j].phase = "running" /\ run'[j].row = "running" /\ run'[j].scanned = C
           /\ run'[j].todo = {AsCandidate(l) : l \in C}
           /\ run'[j].mode = run[j].mode /\ run'[j].lot = run[j].lot
           /\ run'[j].ok = run[j].ok /\ run'[j].missing = run[j].missing
<1>1. run[j].mode \in BulkModes
  BY DEF FetchCandidates, Structure, PrepareInv, PrepareOf, Preparing, Manual, Shape, RunState, Modes
<1>2. \A waiting : CandidateLots(run[j].mode, waiting) \subseteq Lot
  BY <1>1 DEF CandidateLots, Unknown, MissingWithoutImages, BulkModes
<1>3. PICK C \in SUBSET Lot :
        /\ Cardinality(C) <= BatchSize
        /\ run' = [run EXCEPT ![j].phase = "running", ![j].row = "running",
                              ![j].scanned = C, ![j].todo = {AsCandidate(l) : l \in C}]
  BY <1>2 DEF FetchCandidates
<1>4. run[j] \in RunState
  BY DEF Shape
<1>5. run' = [run EXCEPT ![j] = [run[j] EXCEPT !.phase = "running", !.row = "running",
                                 !.scanned = C, !.todo = {AsCandidate(l) : l \in C}]]
  BY <1>3
<1>6. run'[j] = [run[j] EXCEPT !.phase = "running", !.row = "running",
                               !.scanned = C, !.todo = {AsCandidate(l) : l \in C}]
  BY <1>5 DEF Shape
<1>7. /\ run'[j].phase = "running" /\ run'[j].row = "running" /\ run'[j].scanned = C
      /\ run'[j].todo = {AsCandidate(l) : l \in C}
      /\ run'[j].mode = run[j].mode /\ run'[j].lot = run[j].lot
      /\ run'[j].ok = run[j].ok /\ run'[j].missing = run[j].missing
  BY <1>4, <1>6 DEF RunState
<1>8. QED
  BY <1>3, <1>7

\* A run gets its candidates, each of another lot, and all its runners start.
LEMMA StructureFetch ==
  ASSUME Shape, Structure, NEW j \in Run, FetchCandidates(j)
  PROVE  Structure'
<1>0. \A k \in Run, i \in Seat : <<k, i>> \in Runner
  BY DEF Runner
<1>1. PICK C \in SUBSET Lot :
        /\ run' = [run EXCEPT ![j].phase = "running", ![j].row = "running",
                              ![j].scanned = C, ![j].todo = {AsCandidate(l) : l \in C}]
        /\ run'[j].phase = "running" /\ run'[j].todo = {AsCandidate(l) : l \in C}
        /\ run'[j].mode = run[j].mode
  BY FetchEffect
<1>2. \A k \in Run : k # j => run'[k] = run[k]
  BY <1>1 DEF Shape
<1>3. /\ lock' = lock /\ run[j].phase = "create"
      /\ \A s \in Runner : work'[s] = IF s[1] = j THEN [Off EXCEPT !.pc = "take"] ELSE work[s]
  BY DEF FetchCandidates
<1>4. ~Manual(j) /\ AllOff(j) /\ ~Manual(j)'
  BY <1>1, <1>3 DEF Structure, PrepareInv, PrepareOf, Preparing, Manual
<1>5. \A s \in Runner : s[1] = j => /\ Rests(s)' /\ Rests(s) /\ work[s].pc = "off"
                                    /\ work'[s] = [Off EXCEPT !.pc = work'[s].pc]
  BY <1>3, <1>4, OffShape DEF AllOff, Runner, Rests, Resting
<1>6. \A s \in Runner : s[1] # j => work'[s] = work[s] /\ (Rests(s)' <=> Rests(s))
  BY <1>3 DEF Rests
<1>7. RestInv'
  BY <1>5, <1>6 DEF Structure, RestInv
<1>8. LockInv'
  BY <1>1, <1>2, <1>3 DEF Structure, LockInv
<1>9. PrepareInv'
  <2>1. \A k \in Run : k # j => (AllOff(k)' <=> AllOff(k)) /\ (Manual(k)' <=> Manual(k))
    BY <1>0, <1>2, <1>6 DEF AllOff, Manual
  <2>2. run'[j].phase \notin Preparing
    BY <1>1 DEF Preparing
  <2>3. QED
    BY <1>2, <2>1, <2>2 DEF Structure, PrepareInv, PrepareOf
<1>10. ListInv'
  <2>1. ASSUME NEW c \in run'[j].todo, NEW d \in run'[j].todo, c.lot = d.lot
        PROVE  c = d
    <3>1. PICK l \in C, m \in C : c = AsCandidate(l) /\ d = AsCandidate(m)
      BY <1>1, <2>1
    <3>2. QED
      BY <2>1, <3>1 DEF AsCandidate
  <2>2. \A i \in Seat : Rests(<<j, i>>)'
    BY <1>0, <1>5
  <2>3. \A k \in Run, i \in Seat : k # j =>
          /\ work'[<<k, i>>] = work[<<k, i>>] /\ run'[k] = run[k]
          /\ Rests(<<k, i>>)' <=> Rests(<<k, i>>)
    BY <1>0, <1>2, <1>6
  <2>4. ListOf(j)'
    BY <2>1, <2>2 DEF ListOf
  <2>5. ASSUME NEW k \in Run, k # j
        PROVE  ListOf(k)'
    <3>1. run'[k] = run[k] /\ \A i \in Seat : work'[<<k, i>>] = work[<<k, i>>]
      BY <1>2, <2>3, <2>5
    <3>2. PrepareOf(k) /\ ListOf(k) /\ ManualOf(k)
      BY DEF Structure, PrepareInv, ListInv, ManualInv
    <3>3. QED
      BY <3>1, <3>2, Elsewhere
  <2>6. QED
    BY <2>4, <2>5 DEF ListInv
<1>11. LiveInv'
  BY ZenonT(60), <1>1, <1>2, <1>3, <1>6 DEF Structure, LiveInv, Runner
<1>12. ManualInv'
  BY <1>0, <1>2, <1>4, <1>6 DEF Structure, ManualInv, ManualOf, Manual
<1>13. QED
  BY <1>7, <1>8, <1>9, <1>10, <1>11, <1>12 DEF Structure

\* A manual run that has reset its lot: one runner with one candidate, or none
\* because the lot has no image URL.
LEMMA StructureReset ==
  ASSUME Shape, Structure, NEW j \in Run, ResetLot(j)
  PROVE  Structure'
<1> DEFINE l == run[j].lot
<1>0. \A k \in Run, i \in Seat : <<k, i>> \in Runner
  BY DEF Runner
<1>1. /\ lock' = lock /\ run[j].phase = "reset" /\ lock = j
      /\ AllOff(j) /\ Manual(j) /\ l \in Lot /\ run[j].todo = {}
      /\ run[j].ok = 0 /\ run[j].missing = 0 /\ run[j].row = "none"
  BY DEF ResetLot, Structure, LockInv, PrepareInv, PrepareOf, Preparing, ManualInv, ManualOf
<1>2. CASE run' = [run EXCEPT ![j].phase = "clear"] /\ UNCHANGED work
  <2>1. /\ run'[j] = [run[j] EXCEPT !.phase = "clear"]
        /\ \A k \in Run : k # j => run'[k] = run[k]
    BY <1>2 DEF Shape
  <2>2. /\ run'[j].phase = "clear" /\ run'[j].todo = {} /\ run'[j].ok = 0 /\ run'[j].missing = 0
        /\ run'[j].row = "none" /\ run'[j].mode = "manual" /\ run'[j].lot = l
    BY <1>1, <2>1 DEF Shape, RunState, Manual
  <2>3. work' = work /\ \A s \in Runner : Rests(s)' <=> Rests(s)
    BY <1>2 DEF Rests
  <2>4. RestInv' /\ LockInv'
    BY <1>1, <2>1, <2>2, <2>3 DEF Structure, RestInv, LockInv
  <2>5. \A k \in Run : k # j => PrepareOf(k)' /\ ListOf(k)' /\ ManualOf(k)'
    BY <2>1, <2>3, Elsewhere DEF Structure, PrepareInv, ListInv, ManualInv
  <2>6. \A i \in Seat : work'[<<j, i>>].pc = "off" /\ Rests(<<j, i>>)'
    BY <1>0, <1>1, <2>3 DEF AllOff, Rests, Resting
  <2>7. PrepareOf(j)' /\ ListOf(j)' /\ ManualOf(j)'
    <3>1. PrepareOf(j)'
      BY <2>2, <2>6 DEF PrepareOf, AllOff, Manual
    <3>2. ListOf(j)' /\ ManualOf(j)'
      BY <1>1, <2>2, <2>6 DEF ListOf, ManualOf
    <3>3. QED
      BY <3>1, <3>2
  <2>8. LiveInv'
    BY <1>0, <1>1, <2>1, <2>2, <2>3 DEF Structure, LiveInv, AllOff, Runner
  <2>9. QED
    BY <2>4, <2>5, <2>7, <2>8 DEF Structure, PrepareInv, ListInv, ManualInv
<1>3. ASSUME NEW i \in Seat, work' = [work EXCEPT ![<<j, i>>].pc = "take"],
             run' = [run EXCEPT ![j].phase = "running", ![j].row = "running",
                                ![j].scanned = {l}, ![j].todo = {[lot |-> l, count |-> 0]}]
      PROVE  Structure'
  <2>1. /\ run'[j] = [run[j] EXCEPT !.phase = "running", !.row = "running",
                                    !.scanned = {l}, !.todo = {[lot |-> l, count |-> 0]}]
        /\ \A k \in Run : k # j => run'[k] = run[k]
    BY <1>3 DEF Shape
  <2>2. /\ run'[j].phase = "running" /\ run'[j].todo = {[lot |-> l, count |-> 0]}
        /\ run'[j].mode = "manual" /\ run'[j].lot = l
    BY <1>1, <2>1 DEF Shape, RunState, Manual
  <2>3. work[<<j, i>>].pc = "off" /\ work[<<j, i>>] = [Off EXCEPT !.pc = "off"]
    BY <1>0, <1>1 DEF Structure, RestInv, AllOff, Rests, Resting
  <2>4. /\ work'[<<j, i>>] = [Off EXCEPT !.pc = "take"]
        /\ \A s \in Runner : s # <<j, i>> => work'[s] = work[s]
    BY <1>0, <1>3, <2>3 DEF Shape, Off
  <2>5. /\ Rests(<<j, i>>)' /\ Rests(<<j, i>>)
        /\ work'[<<j, i>>] = [Off EXCEPT !.pc = work'[<<j, i>>].pc]
        /\ \A s \in Runner : Rests(s)' <=> Rests(s)
    BY <2>3, <2>4, OffShape DEF Rests, Resting
  <2>6. RestInv'
    BY <2>4, <2>5 DEF Structure, RestInv
  <2>7. LockInv'
    BY <1>1, <2>1, <2>2 DEF Structure, LockInv
  <2>8. \A k \in Run : k # j => PrepareOf(k)' /\ ListOf(k)' /\ ManualOf(k)'
    <3>1. \A k \in Run, m \in Seat : k # j => work'[<<k, m>>] = work[<<k, m>>]
      BY <1>0, <2>4
    <3>2. QED
      BY <2>1, <3>1, Elsewhere DEF Structure, PrepareInv, ListInv, ManualInv
  <2>9. \A k \in Seat : Rests(<<j, k>>)' /\ (k # i => work'[<<j, k>>].pc = "off")
    BY <1>0, <1>1, <2>4, <2>5 DEF AllOff, Rests, Resting
  <2>10. PrepareOf(j)' /\ ListOf(j)' /\ ManualOf(j)'
    <3>1. PrepareOf(j)'
      BY <2>2 DEF PrepareOf, Preparing
    <3>2. ListOf(j)'
      BY <2>2, <2>9 DEF ListOf
    <3>3. ManualOf(j)'
      BY <1>1, <2>2, <2>9 DEF ManualOf
    <3>4. QED
      BY <3>1, <3>2, <3>3
  <2>11. LiveInv'
    <3>1. ASSUME NEW s \in Runner, work'[s].pc # "off"
          PROVE  MayReject \/ run'[s[1]].phase = "running"
      <4>1. s[1] \in Run
        BY DEF Runner
      <4>2. CASE s[1] = j
        BY <2>2, <4>2
      <4>3. CASE s[1] # j
        <5>1. work'[s] = work[s] /\ run'[s[1]] = run[s[1]]
          BY <2>1, <2>4, <4>1, <4>3
        <5>2. QED
          BY <3>1, <5>1 DEF Structure, LiveInv
      <4>4. QED
        BY <4>2, <4>3
    <3>2. QED
      BY <3>1 DEF LiveInv
  <2>12. QED
    BY <2>6, <2>7, <2>8, <2>10, <2>11 DEF Structure, PrepareInv, ListInv, ManualInv
<1>4. QED
  BY <1>2, <1>3 DEF ResetLot

\* A crash leaves nobody at work; ingest does not touch the runs.
LEMMA StructureOther ==
  ASSUME Shape, Structure, Crash \/ (\E l \in Lot : UpsertUrl(l)) \/ Hydrate \/ UNCHANGED vars
  PROVE  Structure'
<1>1. CASE Crash
  <2>1. \A s \in Runner : /\ work'[s] = Off /\ work'[s].pc = "off" /\ Rests(s)'
                          /\ work'[s] = [Off EXCEPT !.pc = work'[s].pc]
    BY <1>1, OffShape DEF Crash, Rests, Resting
  <2>2. lock' = NoRun /\ \A j \in Run : /\ run'[j].phase = "idle" /\ run'[j].todo = {}
                                        /\ run'[j].mode = run[j].mode /\ run'[j].lot = run[j].lot
    BY <1>1 DEF Crash, Shape, RunState
  <2>3. \A j \in Run, i \in Seat : <<j, i>> \in Runner
    BY DEF Runner
  <2>4. RestInv' /\ LockInv' /\ LiveInv'
    BY <2>1, <2>2, PhotoAssumption DEF RestInv, LockInv, LiveInv
  <2>5. ASSUME NEW j \in Run
        PROVE  PrepareOf(j)' /\ ListOf(j)' /\ ManualOf(j)'
    <3>1. \A i \in Seat : work'[<<j, i>>].pc = "off" /\ Rests(<<j, i>>)'
      BY <2>1, <2>3
    <3>2. PrepareOf(j)' /\ ListOf(j)'
      BY <2>2, <3>1 DEF PrepareOf, ListOf, Preparing
    <3>3. ManualOf(j)'
      BY <2>2, <3>1 DEF Structure, ManualInv, ManualOf, Manual
    <3>4. QED
      BY <3>2, <3>3
  <2>6. QED
    BY <2>4, <2>5 DEF Structure, PrepareInv, ListInv, ManualInv
<1>2. CASE UNCHANGED <<run, work, lock>>
  BY <1>2 DEF Structure, RestInv, LockInv, PrepareInv, PrepareOf, ListInv, ListOf, LiveInv, ManualInv, ManualOf, Manual,
     AllOff, Rests
<1>3. QED
  BY <1>1, <1>2 DEF UpsertUrl, Hydrate, vars

Frame == Shape /\ Structure

\* Every step of the specification is one of these.
LEMMA NextCases ==
  ASSUME [Next]_vars
  PROVE  \/ \E j \in Run : \/ Start(j) \/ (\E l \in Lot : StartManual(j, l))
                           \/ RunStep(j) \/ Abort(j) \/ CompleteFails(j)
         \/ \E r \in Runner : RunnerStep(r) \/ Throw(r) \/ Reject(r)
         \/ Crash \/ (\E l \in Lot : UpsertUrl(l)) \/ Hydrate \/ UNCHANGED vars
BY DEF Next

\* The frame is inductive, with the semaphore's queue.
LEMMA FrameStep == Frame /\ SemInv /\ [Next]_vars => Frame'
<1> SUFFICES ASSUME Frame, SemInv, [Next]_vars PROVE Frame'
  OBVIOUS
<1> USE DEF Frame
<1>1. ASSUME NEW j \in Run, \/ Start(j) \/ (\E l \in Lot : StartManual(j, l))
                            \/ RunStep(j) \/ Abort(j) \/ CompleteFails(j)
      PROVE  Frame'
  <2>1. Shape'
    BY <1>1, RunShapeStep DEF Structure
  <2>2. Structure'
    BY <1>1, StructureStart, StructureLeave, StructureFetch, StructureReset DEF RunStep
  <2>3. QED
    BY <2>1, <2>2
<1>2. ASSUME NEW r \in Runner, RunnerStep(r) \/ Throw(r) \/ Reject(r)
      PROVE  Frame'
  <2>1. Shape'
    BY <1>2, RunnerShapeStep
  <2>2. CASE Take(r)
    BY <2>1, <2>2, StructureTake
  <2>3. CASE MarkOk(r) \/ MarkMissing(r) \/ Reject(r)
    BY <2>1, <2>3, StructureEnd
  <2>4. CASE \/ Fetch(r) \/ Mmember(r) \/ Inspect(r) \/ ReplaceLotImages(r)
             \/ LogPhotoAttempt(r) \/ Throw(r)
    BY <2>1, <2>4, OnwardStep, StructureOnward
  <2>5. QED
    BY <1>2, <2>2, <2>3, <2>4 DEF RunnerStep
<1>3. CASE Crash \/ (\E l \in Lot : UpsertUrl(l)) \/ Hydrate \/ UNCHANGED vars
  BY <1>3, OtherShapeStep, StructureOther
<1>4. QED
  BY <1>1, <1>2, <1>3, NextCases

-----------------------------------------------------------------------------
(* The semaphore. *)

\* No request is inside the semaphore at first.
LEMMA SemInit == Init => SemInv
<1> SUFFICES ASSUME Init PROVE SemInv
  OBVIOUS
<1>1. Inside = {}
  BY OffShape DEF Init, Inside
<1>2. sem.count = 0 /\ sem.queue = << >>
  BY DEF Init
<1>3. QED
  BY <1>1, <1>2, FS_EmptySet, PhotoAssumption DEF SemInv

\* A step that neither enters nor leaves the semaphore.
LEMMA SemAside ==
  ASSUME SemInv, UNCHANGED sem, Shape,
         \A s \in Runner : work[s].pc \in Mobile \/ work'[s].pc \in Mobile => work'[s].pc = work[s].pc
  PROVE  SemInv'
<1>1. Inside' = Inside
  BY DEF Inside, Mobile
<1>2. \A m \in 1..Len(sem.queue) : sem.queue[m] \in Runner
  BY DEF Shape
<1>3. QED
  BY <1>1, <1>2 DEF SemInv, Mobile

\* A slot that is free is taken, or the runner joins the queue.
LEMMA SemAcquire ==
  ASSUME SemInv, Shape, NEW r \in Runner, work[r].pc = "fetch", Acquire(r)
  PROVE  SemInv'
<1>0. \A m \in 1..Len(sem.queue) : sem.queue[m] \in Runner /\ sem.queue[m] # r
  BY DEF Shape, SemInv
<1>1. CASE sem.count < MmemberLimit /\ sem' = [sem EXCEPT !.count = @ + 1] /\ Go(r, "mmember")
  <2>1. Inside' = Inside \cup {r} /\ r \notin Inside
    BY <1>1, GoShape DEF Inside, Go, Shape, WorkState
  <2>2. IsFiniteSet(Inside') /\ Cardinality(Inside') = sem.count + 1
    BY SMTT(60), <2>1, FS_AddElement DEF SemInv
  <2>3. sem'.count = sem.count + 1 /\ sem'.queue = sem.queue
    BY <1>1 DEF Shape
  <2>4. \A s \in Runner : s # r => work'[s] = work[s]
    BY <1>1 DEF Go, Shape
  <2>5. sem.count \in Int
    BY DEF Shape
  <2>6. QED
    BY <1>0, <1>1, <2>2, <2>3, <2>4, <2>5, PhotoAssumption DEF SemInv
<1>2. CASE /\ sem.count >= MmemberLimit
           /\ sem' = [sem EXCEPT !.queue = Append(@, r)] /\ Go(r, "queued")
  <2>1. Inside' = Inside
    BY <1>2 DEF Inside, Go, Shape, WorkState
  <2>2. sem'.count = sem.count /\ sem'.queue = Append(sem.queue, r) /\ sem.queue \in Seq(Runner)
    BY <1>2 DEF Shape
  <2>3. work'[r].pc = "queued" /\ \A s \in Runner : s # r => work'[s] = work[s]
    BY <1>2 DEF Go, Shape, WorkState
  <2>4. /\ Len(sem'.queue) = Len(sem.queue) + 1 /\ Len(sem.queue) \in Nat
        /\ \A m \in 1..Len(sem.queue) : sem'.queue[m] = sem.queue[m]
        /\ sem'.queue[Len(sem.queue) + 1] = r
    BY <2>2
  <2>5. ASSUME NEW m \in 1..Len(sem'.queue), NEW n \in 1..Len(sem'.queue)
        PROVE  work'[sem'.queue[m]].pc = "queued" /\ (sem'.queue[m] = sem'.queue[n] => m = n)
    <3>1. CASE m \in 1..Len(sem.queue) /\ n \in 1..Len(sem.queue)
      <4>1. /\ sem'.queue[m] = sem.queue[m] /\ sem'.queue[n] = sem.queue[n]
            /\ sem.queue[m] \in Runner /\ sem.queue[m] # r
        BY <1>0, <2>4, <3>1
      <4>2. work[sem.queue[m]].pc = "queued" /\ (sem.queue[m] = sem.queue[n] => m = n)
        BY <3>1 DEF SemInv
      <4>3. QED
        BY <2>3, <4>1, <4>2
    <3>2. CASE m = Len(sem.queue) + 1 \/ n = Len(sem.queue) + 1
      <4>1. /\ m = Len(sem.queue) + 1 \/ m \in 1..Len(sem.queue)
            /\ n = Len(sem.queue) + 1 \/ n \in 1..Len(sem.queue)
        BY <2>4
      <4>2. work'[sem'.queue[m]].pc = "queued"
        BY SMTT(60), <1>0, <2>3, <2>4, <4>1 DEF SemInv
      <4>3. sem'.queue[m] = sem'.queue[n] => m = n
        BY <1>0, <2>4, <3>2, <4>1
      <4>4. QED
        BY <4>2, <4>3
    <3>3. QED
      BY <2>4, <3>1, <3>2
  <2>6. QED
    BY <2>1, <2>2, <2>5 DEF SemInv
<1>3. QED
  BY <1>1, <1>2 DEF Acquire

\* The slot of a request that ends is freed or goes to the first in the queue.
LEMMA SemRelease ==
  ASSUME SemInv, Shape, NEW r \in Runner, Mmember(r)
  PROVE  SemInv'
<1>0. work[r].pc = "mmember" /\ \A m \in 1..Len(sem.queue) : sem.queue[m] \in Runner /\ sem.queue[m] # r
  BY DEF Shape, SemInv, Mmember
<1>1. /\ r \in Inside /\ IsFiniteSet(Inside \ {r})
      /\ Cardinality(Inside \ {r}) = sem.count - 1
  <2>1. r \in Inside
    BY <1>0 DEF Inside
  <2>2. IsFiniteSet(Inside) /\ Cardinality(Inside) = sem.count
    BY DEF SemInv
  <2> HIDE DEF Inside
  <2>3. IsFiniteSet(Inside \ {r}) /\ Cardinality(Inside \ {r}) = Cardinality(Inside) - 1
    BY <2>1, <2>2, FS_RemoveElement
  <2>4. QED
    BY <2>1, <2>2, <2>3
<1>2. PICK pc \in PCs \ Mobile :
        \/ /\ sem.queue = << >>
           /\ sem' = [sem EXCEPT !.count = @ - 1]
           /\ work' = [work EXCEPT ![r].pc = pc]
        \/ /\ sem.queue # << >>
           /\ sem' = [sem EXCEPT !.queue = Tail(@)]
           /\ work' = [work EXCEPT ![r].pc = pc, ![Head(sem.queue)].pc = "mmember"]
  <2>1. "full" \in PCs \ Mobile /\ NoLinks(r) \in PCs \ Mobile
    BY DEF NoLinks, PCs, Mobile, Tiers, Writes
  <2>2. QED
    BY <2>1 DEF Mmember
<1>3. sem.count \in Int /\ sem.queue \in Seq(Runner) /\ sem.count <= MmemberLimit
  BY DEF Shape, SemInv
<1>4. CASE sem.queue = << >> /\ sem' = [sem EXCEPT !.count = @ - 1] /\ work' = [work EXCEPT ![r].pc = pc]
  <2>1. Inside' = Inside \ {r}
    BY <1>2, <1>4 DEF Inside, Mobile, Shape, WorkState
  <2>2. sem'.count = sem.count - 1 /\ sem'.queue = << >>
    BY <1>4 DEF Shape
  <2>3. QED
    BY <1>1, <1>3, <2>1, <2>2, PhotoAssumption DEF SemInv
<1>5. CASE /\ sem.queue # << >> /\ sem' = [sem EXCEPT !.queue = Tail(@)]
           /\ work' = [work EXCEPT ![r].pc = pc, ![Head(sem.queue)].pc = "mmember"]
  <2>1. /\ Head(sem.queue) = sem.queue[1] /\ 1 \in 1..Len(sem.queue) /\ Len(sem.queue) \in Nat
        /\ Len(Tail(sem.queue)) = Len(sem.queue) - 1
        /\ \A m \in 1..Len(Tail(sem.queue)) : Tail(sem.queue)[m] = sem.queue[m + 1]
    BY <1>3, <1>5
  <2> DEFINE h == sem.queue[1]
  <2>2. h \in Runner /\ h # r /\ work[h].pc = "queued"
    BY <1>0, <2>1 DEF SemInv
  <2>3. work' = [[work EXCEPT ![r].pc = pc] EXCEPT ![h].pc = "mmember"]
    BY <1>5, <2>1
  <2>4. /\ work'[h].pc = "mmember" /\ work'[r].pc = pc
        /\ \A s \in Runner : s # r /\ s # h => work'[s] = work[s]
    BY <2>2, <2>3 DEF Shape, WorkState
  <2>5. Inside' = (Inside \ {r}) \cup {h} /\ h \notin Inside \ {r}
    BY <1>2, <2>2, <2>4 DEF Inside, Mobile
  <2>6. IsFiniteSet(Inside') /\ Cardinality(Inside') = sem.count
    <3>1. /\ IsFiniteSet((Inside \ {r}) \cup {h})
          /\ Cardinality((Inside \ {r}) \cup {h}) = Cardinality(Inside \ {r}) + 1
      BY <1>1, <2>5, FS_AddElement
    <3>2. QED
      BY <1>1, <1>3, <2>5, <3>1
  <2>7. sem'.count = sem.count /\ sem'.queue = Tail(sem.queue)
    BY <1>5 DEF Shape
  <2>8. ASSUME NEW m \in 1..Len(sem'.queue), NEW n \in 1..Len(sem'.queue)
        PROVE  work'[sem'.queue[m]].pc = "queued" /\ (sem'.queue[m] = sem'.queue[n] => m = n)
    <3>1. m + 1 \in 1..Len(sem.queue) /\ n + 1 \in 1..Len(sem.queue)
      BY <2>1, <2>7
    <3>2. sem'.queue[m] = sem.queue[m + 1] /\ sem'.queue[n] = sem.queue[n + 1]
      BY <2>1, <2>7
    <3>3. sem.queue[m + 1] # h
      BY <2>1, <3>1 DEF SemInv
    <3>4. QED
      BY <1>0, <2>4, <3>1, <3>2, <3>3 DEF SemInv
  <2>9. QED
    BY <1>3, <2>6, <2>7, <2>8 DEF SemInv
<1>6. QED
  BY <1>2, <1>4, <1>5

\* The semaphore is kept by every step: runs begin and end with their runners
\* outside it, and a runner inside it only ends its request or dies.
LEMMA SemStep == Frame /\ SemInv /\ [Next]_vars => SemInv'
<1> SUFFICES ASSUME Shape, Structure, SemInv, [Next]_vars PROVE SemInv'
  BY DEF Frame
<1>0. \A s \in Runner : s[1] \in Run /\ s[2] \in Seat /\ s = <<s[1], s[2]>>
  BY DEF Runner
<1>1. ASSUME NEW j \in Run, \/ Start(j) \/ (\E l \in Lot : StartManual(j, l))
                            \/ RunStep(j) \/ Abort(j) \/ CompleteFails(j)
      PROVE  SemInv'
  <2>1. CASE UNCHANGED <<work, sem>>
    BY <2>1, SemAside
  <2>2. CASE FetchCandidates(j)
    <3>1. AllOff(j)
      BY <2>2 DEF FetchCandidates, Structure, PrepareInv, PrepareOf, Preparing
    <3>2. \A s \in Runner : work[s].pc \in Mobile \/ work'[s].pc \in Mobile => work'[s] = work[s]
      BY <1>0, <2>2, <3>1, OffShape DEF FetchCandidates, AllOff, Mobile
    <3>3. QED
      BY <2>2, <3>2, SemAside DEF FetchCandidates
  <2>3. CASE ResetLot(j)
    <3>1. AllOff(j)
      BY <2>3 DEF ResetLot, Structure, PrepareInv, PrepareOf, Preparing
    <3>2. ASSUME NEW i \in Seat, work' = [work EXCEPT ![<<j, i>>].pc = "take"]
          PROVE  SemInv'
      <4>1. \A s \in Runner : work[s].pc \in Mobile \/ work'[s].pc \in Mobile => work'[s] = work[s]
        <5>1. work[<<j, i>>].pc = "off" /\ <<j, i>> \in Runner
          BY <3>1 DEF AllOff, Runner
        <5>2. work'[<<j, i>>].pc = "take" /\ \A s \in Runner : s # <<j, i>> => work'[s] = work[s]
          BY <3>2, <5>1 DEF Shape, WorkState
        <5>3. QED
          BY <5>1, <5>2 DEF Mobile
      <4>2. QED
        BY <2>3, <4>1, SemAside DEF ResetLot
    <3>3. QED
      BY <2>1, <2>3, <3>2 DEF ResetLot
  <2>4. QED
    BY <1>1, <2>1, <2>2, <2>3 DEF Start, StartManual, RunStep, Abort, CompleteFails, ClearLot,
       CompleteSuccess, CompleteFailure
<1>2. ASSUME NEW r \in Runner, RunnerStep(r) \/ Throw(r) \/ Reject(r)
      PROVE  SemInv'
  <2>1. CASE Mmember(r)
    BY <2>1, SemRelease
  <2>2. CASE Fetch(r) /\ Acquire(r)
    BY <2>2, SemAcquire DEF Fetch
  <2>3. ASSUME UNCHANGED sem, work[r].pc \notin Mobile, work'[r].pc \notin Mobile,
               \A s \in Runner : s # r => work'[s] = work[s]
        PROVE  SemInv'
    BY <2>3, SemAside
  <2>4. CASE Fetch(r) /\ ~Acquire(r)
    <3>1. UNCHANGED sem /\ work[r].pc = "fetch" /\ \E pc \in PCs \ Mobile : Go(r, pc)
      <4>1. {NoLinks(r), "full"} \subseteq PCs \ Mobile
        BY DEF NoLinks, PCs, Mobile, Tiers, Writes
      <4>2. QED
        BY <2>4, <4>1 DEF Fetch
    <3>2. PICK pc \in PCs \ Mobile : Go(r, pc)
      BY <3>1
    <3>3. work'[r].pc = pc /\ \A s \in Runner : s # r => work'[s] = work[s]
      BY <3>2, GoShape
    <3>4. QED
      BY <2>3, <3>1, <3>3 DEF Mobile
  <2>5. CASE Take(r)
    <3>1. work'[r].pc \in {"off", "fetch"} /\ \A s \in Runner : s # r => work'[s] = work[s]
      <4>1. CASE work' = [work EXCEPT ![r] = Off]
        BY <4>1, OffShape DEF Shape
      <4>2. ASSUME NEW c \in run[r[1]].todo,
                   work' = [work EXCEPT ![r] = [pc |-> "fetch", lot |-> c.lot,
                                                count |-> c.count, store |-> {}]]
            PROVE  work'[r].pc = "fetch" /\ \A s \in Runner : s # r => work'[s] = work[s]
        BY <4>2 DEF Shape
      <4>3. QED
        BY <2>5, <4>1, <4>2 DEF Take
    <3>2. QED
      BY <2>3, <2>5, <3>1 DEF Take, Mobile
  <2>6. CASE Inspect(r)
    <3>1. /\ work'[r].pc \in PCs \ Mobile
          /\ \A s \in Runner : s # r => work'[s] = work[s]
      <4>1. {NoImages(r), "hd", "other", "insert"} \subseteq PCs \ Mobile
        BY DEF NoImages, PCs, Mobile, Tiers, Writes
      <4>2. CASE \E good \in GoodImages : work' = [work EXCEPT ![r].pc = "insert", ![r].store = good]
        <5>1. PICK good \in GoodImages :
                work' = [work EXCEPT ![r] = [work[r] EXCEPT !.pc = "insert", !.store = good]]
          BY <4>2
        <5>2. QED
          BY <4>1, <5>1 DEF Shape, WorkState
      <4>3. CASE \E pc \in PCs \ Mobile : Go(r, pc)
        BY <4>3, GoShape
      <4>4. QED
        BY <2>6, <4>1, <4>2, <4>3 DEF Inspect, Tiers
    <3>2. QED
      BY <2>3, <2>6, <3>1 DEF Inspect, Mobile, Tiers
  <2>7. CASE ReplaceLotImages(r) \/ LogPhotoAttempt(r)
    <3>1. \E pc \in {"missing", "delete", "ok", "recover"} : Go(r, pc)
      BY <2>7 DEF ReplaceLotImages, LogPhotoAttempt
    <3>2. /\ work'[r].pc \in {"missing", "delete", "ok", "recover"}
          /\ \A s \in Runner : s # r => work'[s] = work[s]
      <4>1. {"missing", "delete", "ok", "recover"} \subseteq PCs
        BY DEF PCs, Writes
      <4>2. PICK pc \in {"missing", "delete", "ok", "recover"} : Go(r, pc)
        BY <3>1
      <4>3. QED
        BY <4>1, <4>2, GoShape
    <3>3. QED
      BY <2>3, <2>7, <3>2 DEF ReplaceLotImages, LogPhotoAttempt, Mobile
  <2>8. CASE MarkOk(r) \/ MarkMissing(r) \/ Reject(r)
    <3>1. /\ work'[r].pc \in {"off", "take"}
          /\ \A s \in Runner : s # r => work'[s] = work[s]
      BY <2>8, OffShape DEF MarkOk, MarkMissing, Reject, Shape
    <3>2. QED
      BY <2>3, <2>8, <3>1 DEF MarkOk, MarkMissing, Reject, Mobile
  <2>9. CASE Throw(r)
    <3>1. work' = [work EXCEPT ![r] = [work[r] EXCEPT !.pc = "log", !.store = {}]]
      BY <2>9 DEF Throw
    <3>2. work'[r].pc = "log" /\ \A s \in Runner : s # r => work'[s] = work[s]
      BY <3>1 DEF Shape, WorkState
    <3>3. QED
      BY <2>3, <2>9, <3>2 DEF Throw, Mobile, Writes, Tiers
  <2>10. QED
    BY <1>2, <2>1, <2>2, <2>4, <2>5, <2>6, <2>7, <2>8, <2>9 DEF RunnerStep
<1>3. CASE Crash
  <2>1. Inside' = {}
    BY <1>3, OffShape DEF Crash, Inside
  <2>2. sem'.count = 0 /\ sem'.queue = << >>
    BY <1>3 DEF Crash
  <2>3. QED
    BY <2>1, <2>2, FS_EmptySet, PhotoAssumption DEF SemInv
<1>4. CASE (\E l \in Lot : UpsertUrl(l)) \/ Hydrate \/ UNCHANGED vars
  BY <1>4, SemAside DEF UpsertUrl, Hydrate, vars
<1>5. QED
  BY <1>1, <1>2, <1>3, <1>4, NextCases

\* The frame of every other proof, for any number of runs that overlap.
THEOREM FrameAlways == Spec => [](Frame /\ SemInv)
<1>1. Init => Frame /\ SemInv
  BY ShapeInit, StructureInit, SemInit DEF Frame
<1>2. Frame /\ SemInv /\ [Next]_vars => (Frame /\ SemInv)'
  BY FrameStep, SemStep
<1>3. QED
  BY <1>1, <1>2, PTL DEF Spec

\* The semaphore counts exactly the requests inside it and lets no more than
\* its limit through, whatever runners fail, reject or die and however many
\* runs share it (createSemaphore, photo-sync.ts:236-260).
THEOREM MmemberBoundedAlways == Spec => []MmemberBounded
<1>1. Frame /\ SemInv => MmemberBounded
  BY DEF SemInv, Inside, MmemberBounded
<1>2. QED
  BY <1>1, FrameAlways, PTL

-----------------------------------------------------------------------------
(* The counters of a run. *)

\* Sets of this module are finite and their cardinalities natural numbers.
LEMMA Sizes ==
  ASSUME Shape, CountInv, NEW j \in Run
  PROVE  /\ IsFiniteSet(run[j].scanned) /\ IsFiniteSet(run[j].todo) /\ IsFiniteSet(Busy(j))
         /\ Cardinality(run[j].scanned) \in Nat /\ Cardinality(run[j].todo) \in Nat
         /\ Cardinality(Busy(j)) \in Nat
         /\ run[j].ok \in Nat /\ run[j].missing \in Nat
<1>1. run[j].scanned \subseteq Lot /\ run[j].ok \in Nat /\ run[j].missing \in Nat
  BY DEF Shape, RunState
<1>2. IsFiniteSet(run[j].scanned) /\ IsFiniteSet(Busy(j))
  BY <1>1, PhotoAssumption, FS_Subset DEF Busy
<1>3. QED
  BY <1>1, <1>2, FS_CardinalityType DEF CountInv, CountOf

\* A run whose own record and whose runners' places are as they were.
LEMMA CountElsewhere ==
  ASSUME NEW k \in Run, CountOf(k), run'[k] = run[k],
         \A i \in Seat : /\ Rests(<<k, i>>)' <=> Rests(<<k, i>>)
                         /\ work[<<k, i>>].pc = "off" => work'[<<k, i>>].pc = "off"
  PROVE  CountOf(k)'
<1>1. Busy(k)' = Busy(k) /\ (AllOff(k) => AllOff(k)')
  BY DEF Busy, AllOff
<1>2. Accounted(k)' = Accounted(k)
  BY <1>1 DEF Accounted
<1>3. QED
  BY <1>1, <1>2 DEF CountOf

\* Nothing is counted at first.
LEMMA CountInit == Init => CountInv
<1> SUFFICES ASSUME Init, NEW j \in Run PROVE CountOf(j)
  BY DEF CountInv
<1>1. /\ run[j].scanned = {} /\ run[j].todo = {} /\ run[j].ok = 0 /\ run[j].missing = 0
      /\ run[j].row = "none" /\ run[j].phase = "idle"
  BY DEF Init, FreshRun
<1>2. Busy(j) = {}
  BY OffShape DEF Init, Busy, Rests, Resting, Runner
<1>3. QED
  BY <1>1, <1>2, FS_EmptySet, PhotoAssumption DEF CountOf, Accounted

\* A candidate taken off the list is being processed.
LEMMA CountTake ==
  ASSUME Shape, Structure, CountInv, NEW r \in Runner, Take(r)
  PROVE  CountInv'
<1> DEFINE j == r[1]
<1>0. j \in Run /\ r = <<j, r[2]>> /\ r[2] \in Seat /\ \A k \in Run, i \in Seat : <<k, i>> \in Runner
  BY DEF Runner
<1>1. Rests(r) /\ work[r].pc = "take"
  BY DEF Take, Rests, Resting
<1>2. CASE work' = [work EXCEPT ![r] = Off] /\ run' = run
  <2>1. work'[r].pc = "off" /\ \A s \in Runner : s # r => work'[s] = work[s]
    BY <1>2, OffShape DEF Shape
  <2>2. \A s \in Runner : /\ Rests(s)' <=> Rests(s)
                          /\ work[s].pc = "off" => work'[s].pc = "off"
    BY <1>1, <2>1 DEF Rests, Resting
  <2>3. QED
    BY <1>0, <1>2, <2>2, CountElsewhere DEF CountInv
<1>3. ASSUME NEW c \in run[j].todo,
             work' = [work EXCEPT ![r] = [pc |-> "fetch", lot |-> c.lot,
                                          count |-> c.count, store |-> {}]],
             run' = [run EXCEPT ![j].todo = @ \ {c}]
      PROVE  CountInv'
  <2>1. ~Rests(r)' /\ \A s \in Runner : s # r => work'[s] = work[s] /\ (Rests(s)' <=> Rests(s))
    BY <1>3 DEF Shape, Rests, Resting
  <2>2. /\ \A k \in Run : k # j => run'[k] = run[k]
        /\ run'[j] = [run[j] EXCEPT !.todo = @ \ {c}]
    BY <1>0, <1>3 DEF Shape
  <2>3. /\ run'[j].todo = run[j].todo \ {c} /\ run'[j].scanned = run[j].scanned
        /\ run'[j].phase = run[j].phase /\ run'[j].row = run[j].row
        /\ run'[j].ok = run[j].ok /\ run'[j].missing = run[j].missing
    BY <1>0, <2>2 DEF Shape, RunState
  <2>4. ASSUME NEW k \in Run, k # j
        PROVE  CountOf(k)'
    <3>1. \A i \in Seat : /\ Rests(<<k, i>>)' <=> Rests(<<k, i>>)
                          /\ work[<<k, i>>].pc = "off" => work'[<<k, i>>].pc = "off"
      BY <1>0, <2>1, <2>4
    <3>2. QED
      BY <2>2, <2>4, <3>1, CountElsewhere DEF CountInv
  <2>5. CountOf(j)'
    <3>1. Busy(j)' = Busy(j) \cup {r[2]} /\ r[2] \notin Busy(j)
      <4>1. \A i \in Seat : i # r[2] => (Rests(<<j, i>>)' <=> Rests(<<j, i>>))
        BY <1>0, <2>1
      <4>2. QED
        BY <1>0, <1>1, <2>1, <4>1 DEF Busy
    <3>2. Cardinality(Busy(j)') = Cardinality(Busy(j)) + 1
      BY <1>0, <3>1, Sizes, FS_AddElement
    <3>3. /\ IsFiniteSet(run[j].todo \ {c})
          /\ Cardinality(run[j].todo \ {c}) = Cardinality(run[j].todo) - 1
      BY <1>0, <1>3, Sizes, FS_RemoveElement
    <3>4. Accounted(j)' = Accounted(j)
      <4>1. /\ run[j].ok \in Nat /\ run[j].missing \in Nat
            /\ Cardinality(run[j].todo) \in Nat /\ Cardinality(Busy(j)) \in Nat
        BY <1>0, Sizes
      <4>2. QED
        BY <2>3, <3>2, <3>3, <4>1 DEF Accounted
    <3>5. run[j].row # "success"
      BY <1>0, <1>1 DEF CountInv, CountOf, AllOff
    <3>6. QED
      BY <1>0, <2>3, <3>3, <3>4, <3>5 DEF CountInv, CountOf
  <2>6. QED
    BY <2>4, <2>5 DEF CountInv
<1>4. QED
  BY <1>2, <1>3 DEF Take

\* A lot that is done is counted; a runner that rejects takes its lot with it.
LEMMA CountEnd ==
  ASSUME Shape, Structure, CountInv, NEW r \in Runner, MarkOk(r) \/ MarkMissing(r) \/ Reject(r)
  PROVE  CountInv'
<1> DEFINE j == r[1]
<1>0. j \in Run /\ r = <<j, r[2]>> /\ r[2] \in Seat /\ \A k \in Run, i \in Seat : <<k, i>> \in Runner
  BY DEF Runner
<1>1. ~Rests(r) /\ work[r].pc # "off"
  BY DEF MarkOk, MarkMissing, Reject, Rests, Resting
<1>2. Rests(r)' /\ \A s \in Runner : s # r => work'[s] = work[s] /\ (Rests(s)' <=> Rests(s))
  BY OffShape DEF MarkOk, MarkMissing, Reject, Shape, Rests, Resting
<1>3. /\ \A k \in Run : k # j => run'[k] = run[k]
      /\ run'[j].todo = run[j].todo /\ run'[j].scanned = run[j].scanned
      /\ run'[j].row = run[j].row
      /\ \/ /\ run'[j].phase = run[j].phase
            /\ run'[j].ok + run'[j].missing = run[j].ok + run[j].missing + 1
         \/ /\ run'[j].phase # "running"
            /\ run'[j].ok = run[j].ok /\ run'[j].missing = run[j].missing
  <2>1. CASE MarkOk(r)
    BY <1>0, <2>1 DEF MarkOk, Shape, RunState
  <2>2. CASE MarkMissing(r)
    BY <1>0, <2>2 DEF MarkMissing, Shape, RunState
  <2>3. CASE Reject(r)
    BY <1>0, <2>3 DEF Reject, Shape, RunState
  <2>4. QED
    BY <2>1, <2>2, <2>3
<1>4. ASSUME NEW k \in Run, k # j
      PROVE  CountOf(k)'
  <2>1. \A i \in Seat : /\ Rests(<<k, i>>)' <=> Rests(<<k, i>>)
                        /\ work[<<k, i>>].pc = "off" => work'[<<k, i>>].pc = "off"
    BY <1>0, <1>2, <1>4
  <2>2. QED
    BY <1>3, <1>4, <2>1, CountElsewhere DEF CountInv
<1>5. CountOf(j)'
  <2>1. Busy(j)' = Busy(j) \ {r[2]} /\ r[2] \in Busy(j)
    <3>1. \A i \in Seat : i # r[2] => (Rests(<<j, i>>)' <=> Rests(<<j, i>>))
      BY <1>0, <1>2
    <3>2. QED
      BY <1>0, <1>1, <1>2, <3>1 DEF Busy
  <2>2. Cardinality(Busy(j)') = Cardinality(Busy(j)) - 1
    <3>1. IsFiniteSet(Busy(j))
      BY <1>0, Sizes
    <3>2. Cardinality(Busy(j) \ {r[2]}) = Cardinality(Busy(j)) - 1
      BY <2>1, <3>1, FS_RemoveElement
    <3>3. QED
      BY <2>1, <3>2
  <2>3. /\ run[j].ok \in Nat /\ run[j].missing \in Nat
        /\ Cardinality(run[j].todo) \in Nat /\ Cardinality(Busy(j)) \in Nat
        /\ Cardinality(run[j].scanned) \in Nat
    BY <1>0, Sizes
  <2>4. run'[j].ok \in Nat /\ run'[j].missing \in Nat
    BY <1>0, RunnerShapeStep DEF RunnerStep, Shape, RunState
  <2>5. run[j].row # "success"
    BY <1>0, <1>1 DEF CountInv, CountOf, AllOff
  <2>6. \/ Accounted(j)' = Accounted(j) /\ run'[j].phase = run[j].phase
        \/ Accounted(j)' = Accounted(j) - 1 /\ run'[j].phase # "running"
    <3>1. Cardinality(run'[j].todo) = Cardinality(run[j].todo)
      BY <1>3
    <3>2. CASE /\ run'[j].phase = run[j].phase
               /\ run'[j].ok + run'[j].missing = run[j].ok + run[j].missing + 1
      BY <2>2, <2>3, <2>4, <3>1, <3>2 DEF Accounted
    <3>3. CASE /\ run'[j].phase # "running"
               /\ run'[j].ok = run[j].ok /\ run'[j].missing = run[j].missing
      BY <2>2, <2>3, <3>1, <3>3 DEF Accounted
    <3>4. QED
      BY <1>3, <3>2, <3>3
  <2>7. Accounted(j) \in Nat
    BY <2>3 DEF Accounted
  <2>8. QED
    BY <1>0, <1>3, <2>3, <2>5, <2>6, <2>7 DEF CountInv, CountOf
<1>6. QED
  BY <1>4, <1>5 DEF CountInv

\* A run starts with nothing counted, and with candidates it starts with as
\* many as it scanned.
LEMMA CountRun ==
  ASSUME Shape, Structure, CountInv, NEW j \in Run,
         \/ Start(j) \/ (\E l \in Lot : StartManual(j, l)) \/ FetchCandidates(j) \/ ResetLot(j)
  PROVE  CountInv'
<1>0. \A k \in Run, i \in Seat : <<k, i>> \in Runner
  BY DEF Runner
<1>1. ASSUME NEW k \in Run, k # j
      PROVE  CountOf(k)'
  <2>1. run'[k] = run[k]
    BY ZenonT(60), <1>1, FetchEffect DEF Start, StartManual, FetchCandidates, ResetLot, Shape
  <2>2. \A i \in Seat : work'[<<k, i>>] = work[<<k, i>>]
    BY <1>0, <1>1 DEF Start, StartManual, FetchCandidates, ResetLot, Shape
  <2>3. QED
    BY SMTT(60), <2>1, <2>2, CountElsewhere DEF CountInv, Rests
<1>2. \A i \in Seat : Rests(<<j, i>>)'
  <2>1. CASE Start(j) \/ \E l \in Lot : StartManual(j, l)
    BY <2>1, OffShape DEF Start, StartManual, Rests, Resting
  <2>2. CASE FetchCandidates(j)
    BY <1>0, <2>2, OffShape DEF FetchCandidates, Rests, Resting
  <2>3. CASE ResetLot(j)
    <3>1. \A i \in Seat : work[<<j, i>>].pc = "off"
      BY <2>3 DEF ResetLot, Structure, PrepareInv, PrepareOf, Preparing, AllOff
    <3>2. ASSUME NEW m \in Seat, work' = [work EXCEPT ![<<j, m>>].pc = "take"], NEW i \in Seat
          PROVE  work'[<<j, i>>].pc \in Resting
      <4>1. <<j, m>> \in Runner /\ <<j, i>> \in Runner
        BY <1>0
      <4>2. CASE i = m
        BY <3>2, <4>1, <4>2 DEF Shape, WorkState, Resting
      <4>3. CASE i # m
        BY <3>1, <3>2, <4>1, <4>3 DEF Shape, Resting
      <4>4. QED
        BY <4>2, <4>3
    <3>3. QED
      BY <2>3, <3>1, <3>2 DEF ResetLot, Rests, Resting
  <2>4. QED
    BY <2>1, <2>2, <2>3
<1>3. Cardinality(Busy(j)') = 0
  <2>1. Busy(j)' = {}
    BY <1>2 DEF Busy
  <2>2. QED
    BY <2>1, FS_EmptySet
<1>4. CASE Start(j) \/ \E l \in Lot : StartManual(j, l)
  <2>1. PICK mode \in Modes, l \in Lot \cup {NoLot}, phase \in {"create", "reset"} :
          run' = [run EXCEPT ![j] = FreshRun(mode, l, phase)]
    BY <1>4 DEF Start, StartManual, Modes
  <2>2. /\ run'[j].scanned = {} /\ run'[j].todo = {} /\ run'[j].ok = 0 /\ run'[j].missing = 0
        /\ run'[j].row = "none" /\ run'[j].phase # "running"
    BY <2>1 DEF FreshRun, Shape
  <2>3. CountOf(j)'
    BY <1>3, <2>2, FS_EmptySet, PhotoAssumption DEF CountOf, Accounted
  <2>4. QED
    BY <1>1, <2>3 DEF CountInv
<1>5. CASE FetchCandidates(j)
  <2>1. PICK C \in SUBSET Lot :
          /\ Cardinality(C) <= BatchSize
          /\ run'[j].phase = "running" /\ run'[j].row = "running" /\ run'[j].scanned = C
          /\ run'[j].todo = {AsCandidate(l) : l \in C}
          /\ run'[j].ok = run[j].ok /\ run'[j].missing = run[j].missing
    BY ZenonT(60), <1>5, FetchEffect
  <2>2. run[j].ok = 0 /\ run[j].missing = 0
    BY <1>5 DEF FetchCandidates, Structure, PrepareInv, PrepareOf, Preparing
  <2>3. IsFiniteSet(C) /\ Cardinality(C) \in Nat
    BY PhotoAssumption, FS_Subset, FS_CardinalityType
  <2>4. IsFiniteSet(run'[j].todo) /\ Cardinality(run'[j].todo) = Cardinality(C)
    <3> DEFINE f == [l \in C |-> AsCandidate(l)]
    <3>1. f \in [C -> run'[j].todo]
      BY <2>1
    <3>2. \A l, m \in C : f[l] = f[m] => l = m
      BY DEF AsCandidate
    <3>3. \A c \in run'[j].todo : \E l \in C : f[l] = c
      BY <2>1
    <3>4. f \in Bijection(C, run'[j].todo)
      BY <3>1, <3>2, <3>3, Fun_IsBij
    <3>5. QED
      BY <2>3, <3>4, FS_Bijection DEF ExistsBijection
  <2>5. CountOf(j)'
    BY <1>3, <2>1, <2>2, <2>3, <2>4 DEF CountOf, Accounted
  <2>6. QED
    BY SMTT(60), <1>1, <2>5 DEF CountInv
<1>6. CASE ResetLot(j)
  <2>1. /\ AllOff(j) /\ run[j].todo = {} /\ run[j].row = "none" /\ run[j] \in RunState
        /\ run[j].ok = 0 /\ run[j].missing = 0
    BY <1>6 DEF ResetLot, Structure, PrepareInv, PrepareOf, Preparing, Shape
  <2>2. CASE run' = [run EXCEPT ![j].phase = "clear"]
    <3>1. /\ run'[j].phase = "clear" /\ run'[j].todo = {} /\ run'[j].ok = 0 /\ run'[j].missing = 0
          /\ run'[j].row = "none" /\ run'[j].scanned = run[j].scanned
      BY <2>1, <2>2 DEF Shape, RunState
    <3>2. Cardinality(run[j].scanned) \in Nat
      BY Sizes
    <3>3. CountOf(j)'
      BY <1>3, <3>1, <3>2, FS_EmptySet DEF CountInv, CountOf, Accounted
    <3>4. QED
      BY <1>1, <3>3 DEF CountInv
  <2>3. CASE run' = [run EXCEPT ![j].phase = "running", ![j].row = "running",
                                ![j].scanned = {run[j].lot},
                                ![j].todo = {[lot |-> run[j].lot, count |-> 0]}]
    <3>1. run'[j] = [run[j] EXCEPT !.phase = "running", !.row = "running",
                                   !.scanned = {run[j].lot},
                                   !.todo = {[lot |-> run[j].lot, count |-> 0]}]
      BY <2>3 DEF Shape
    <3>2. /\ run'[j].phase = "running" /\ run'[j].row = "running"
          /\ run'[j].scanned = {run[j].lot} /\ run'[j].todo = {[lot |-> run[j].lot, count |-> 0]}
          /\ run'[j].ok = 0 /\ run'[j].missing = 0
      BY <2>1, <3>1 DEF RunState
    <3>3. /\ Cardinality(run'[j].scanned) = 1 /\ Cardinality(run'[j].todo) = 1
          /\ IsFiniteSet(run'[j].todo)
      <4>1. \A x : IsFiniteSet({x}) /\ Cardinality({x}) = 1
        BY FS_Singleton
      <4>2. QED
        BY <3>2, <4>1
    <3>4. CountOf(j)'
      BY <1>3, <3>2, <3>3, PhotoAssumption DEF CountOf, Accounted
    <3>5. QED
      BY <1>1, <3>4 DEF CountInv
  <2>4. QED
    BY <1>6, <2>2, <2>3 DEF ResetLot
<1>7. QED
  BY <1>4, <1>5, <1>6

\* What a run that ends has counted: everything, if it records a success.
LEMMA CountLeave ==
  ASSUME Shape, Structure, CountInv, NEW j \in Run,
         ClearLot(j) \/ Abort(j) \/ CompleteSuccess(j) \/ CompleteFails(j) \/ CompleteFailure(j)
  PROVE  CountInv'
<1>0. run[j] \in RunState /\ work' = work
  BY DEF Shape, ClearLot, Abort, CompleteSuccess, CompleteFails, CompleteFailure
<1>1. /\ \A k \in Run : k # j => run'[k] = run[k]
      /\ run'[j].todo = run[j].todo /\ run'[j].scanned = run[j].scanned
      /\ run'[j].ok = run[j].ok /\ run'[j].missing = run[j].missing
      /\ run'[j].phase # "running" /\ run[j].phase # "idle"
      /\ \/ run'[j].row \in {run[j].row, "failed"}
         \/ CompleteSuccess(j) /\ run'[j].phase = "idle"
  <2>1. CASE ClearLot(j) \/ Abort(j)
    BY <1>0, <2>1 DEF ClearLot, Abort, Shape, RunState
  <2>2. CASE CompleteSuccess(j)
    BY <1>0, <2>2 DEF CompleteSuccess, Shape, RunState
  <2>3. CASE CompleteFails(j)
    BY <1>0, <2>3 DEF CompleteFails, Shape, RunState
  <2>4. CASE CompleteFailure(j)
    BY <1>0, <2>4 DEF CompleteFailure, Shape, RunState
  <2>5. QED
    BY <2>1, <2>2, <2>3, <2>4
<1>2. \A k \in Run : k # j => CountOf(k)'
  BY <1>0, <1>1, CountElsewhere DEF CountInv, Rests
<1>3. Accounted(j)' = Accounted(j) /\ (AllOff(j)' <=> AllOff(j))
  BY <1>0, <1>1 DEF Accounted, Busy, AllOff, Rests
<1>4. CountOf(j)
  BY DEF CountInv
<1>5. CASE run'[j].row \in {run[j].row, "failed"}
  BY <1>1, <1>2, <1>3, <1>4, <1>5 DEF CountInv, CountOf
<1>6. CASE CompleteSuccess(j) /\ run'[j].phase = "idle"
  <2>1. run[j].phase = "running" /\ AllOff(j) /\ run[j].todo = {}
    BY <1>6, OffShape DEF CompleteSuccess, AllOff
  <2>2. QED
    BY <1>1, <1>2, <1>3, <1>4, <1>6, <2>1 DEF CountInv, CountOf
<1>7. QED
  BY <1>1, <1>5, <1>6

\* What a crash forgets only makes the sum smaller.
LEMMA CountCrash ==
  ASSUME Shape, Structure, CountInv, Crash
  PROVE  CountInv'
<1> SUFFICES ASSUME NEW j \in Run PROVE CountOf(j)'
  BY DEF CountInv
<1>1. /\ run'[j].phase = "idle" /\ run'[j].todo = {} /\ run'[j].scanned = run[j].scanned
      /\ run'[j].ok = run[j].ok /\ run'[j].missing = run[j].missing /\ run'[j].row = run[j].row
  BY DEF Crash, Shape, RunState
<1>2. AllOff(j)' /\ Busy(j)' = {}
  BY OffShape DEF Crash, AllOff, Busy, Rests, Resting, Runner
<1>3. /\ run[j].ok \in Nat /\ run[j].missing \in Nat
      /\ Cardinality(run[j].todo) \in Nat /\ Cardinality(Busy(j)) \in Nat
      /\ Cardinality(run[j].scanned) \in Nat
  BY Sizes
<1>4. Accounted(j)' = run[j].ok + run[j].missing
  BY <1>1, <1>2, <1>3, FS_EmptySet DEF Accounted
<1>5. CountOf(j) /\ Accounted(j)' <= Accounted(j) /\ Accounted(j)' \in Nat /\ Accounted(j) \in Nat
  BY <1>3, <1>4 DEF CountInv, Accounted
<1>6. run[j].row = "success" => Accounted(j)' = Accounted(j)
  <2>1. SUFFICES ASSUME run[j].row = "success" PROVE Accounted(j)' = Accounted(j)
    OBVIOUS
  <2>2. run[j].todo = {} /\ AllOff(j)
    BY <1>5, <2>1 DEF CountOf
  <2>3. Busy(j) = {}
    BY <2>2 DEF Busy, AllOff, Rests, Resting
  <2>4. QED
    BY <1>3, <1>4, <2>2, <2>3, FS_EmptySet DEF Accounted
<1>7. QED
  BY <1>1, <1>2, <1>3, <1>5, <1>6, FS_EmptySet DEF CountOf

\* Every step keeps the counters of every run.
LEMMA CountStep == Frame /\ SemInv /\ CountInv /\ [Next]_vars => CountInv'
<1> SUFFICES ASSUME Shape, Structure, SemInv, CountInv, [Next]_vars PROVE CountInv'
  BY DEF Frame
<1>0. \A k \in Run, i \in Seat : <<k, i>> \in Runner
  BY DEF Runner
<1>1. ASSUME NEW j \in Run, \/ Start(j) \/ (\E l \in Lot : StartManual(j, l))
                            \/ RunStep(j) \/ Abort(j) \/ CompleteFails(j)
      PROVE  CountInv'
  BY <1>1, CountRun, CountLeave DEF RunStep
<1>2. ASSUME NEW r \in Runner, RunnerStep(r) \/ Throw(r) \/ Reject(r)
      PROVE  CountInv'
  <2>1. CASE Take(r)
    BY <2>1, CountTake
  <2>2. CASE MarkOk(r) \/ MarkMissing(r) \/ Reject(r)
    BY <2>2, CountEnd
  <2>3. CASE \/ Fetch(r) \/ Mmember(r) \/ Inspect(r) \/ ReplaceLotImages(r)
             \/ LogPhotoAttempt(r) \/ Throw(r)
    <3>1. Onward
      BY <2>3, OnwardStep
    <3>2. \A k \in Run, i \in Seat : /\ Rests(<<k, i>>)' <=> Rests(<<k, i>>)
                                     /\ work[<<k, i>>].pc = "off" => work'[<<k, i>>].pc = "off"
      BY <1>0, <3>1 DEF Onward, Rests, Resting
    <3>3. run' = run
      BY <3>1 DEF Onward
    <3>4. QED
      BY <3>2, <3>3, CountElsewhere DEF CountInv
  <2>4. QED
    BY <1>2, <2>1, <2>2, <2>3 DEF RunnerStep
<1>3. CASE Crash
  BY <1>3, CountCrash
<1>4. CASE UNCHANGED <<run, work>>
  BY <1>4, CountElsewhere DEF CountInv, Rests
<1>5. QED
  BY <1>1, <1>2, <1>3, <1>4, NextCases DEF UpsertUrl, Hydrate, vars

\* The counters of every run agree with what it scanned.
THEOREM CountAlways == Spec => [](Frame /\ SemInv /\ CountInv)
<1>1. Init => CountInv
  BY CountInit
<1>2. QED
  BY <1>1, FrameAlways, CountStep, PTL DEF Spec

\* Every type: the counters of a run never pass its batch, with the runners
\* that a rejected run left behind still counting (photo-sync.ts:581-587).
THEOREM TypeCorrect == Spec => []TypeOK
<1>1. Frame /\ SemInv /\ CountInv => TypeOK
  <2> SUFFICES ASSUME Shape, SemInv, CountInv PROVE TypeOK
    BY DEF Frame
  <2>1. \A j \in Run : run[j].ok \in 0..BatchSize /\ run[j].missing \in 0..BatchSize
    <3>1. SUFFICES ASSUME NEW j \in Run
                   PROVE  run[j].ok \in 0..BatchSize /\ run[j].missing \in 0..BatchSize
      OBVIOUS
    <3>2. /\ run[j].ok \in Nat /\ run[j].missing \in Nat
          /\ Cardinality(run[j].todo) \in Nat /\ Cardinality(Busy(j)) \in Nat
          /\ Cardinality(run[j].scanned) \in Nat
      BY Sizes
    <3>3. QED
      BY <3>2, PhotoAssumption DEF CountInv, CountOf, Accounted
  <2>2. sem.count \in 0..MmemberLimit /\ sem.queue \in Seq(Runner)
    BY FS_CardinalityType, PhotoAssumption DEF Shape, SemInv
  <2>3. run \in [Run -> [phase : Phases, mode : Modes, lot : Lot \cup {NoLot},
                         todo : SUBSET Candidate, scanned : SUBSET Lot, ok : 0..BatchSize,
                         missing : 0..BatchSize, row : Rows]]
    BY <2>1 DEF Shape, RunState
  <2>4. QED
    BY <2>2, <2>3 DEF TypeOK, Shape, Phases, Rows, LotRow, WorkState
<1>2. QED
  BY <1>1, CountAlways, PTL

\* A run recorded as a success has counted every lot it scanned once, however
\* its runners interleaved (photo-sync.ts:543-587).
THEOREM CountsEveryCandidateAlways == Spec => []CountsEveryCandidate
<1>1. Frame /\ SemInv /\ CountInv => CountsEveryCandidate
  <2> SUFFICES ASSUME Shape, CountInv, NEW j \in Run, run[j].row = "success"
               PROVE  run[j].ok + run[j].missing = Cardinality(run[j].scanned)
    BY DEF Frame, CountsEveryCandidate
  <2>1. run[j].todo = {} /\ AllOff(j) /\ Accounted(j) = Cardinality(run[j].scanned)
    BY DEF CountInv, CountOf
  <2>2. Busy(j) = {}
    BY <2>1 DEF Busy, AllOff, Rests, Resting
  <2>3. run[j].ok \in Nat /\ run[j].missing \in Nat
    BY Sizes
  <2>4. QED
    BY <2>1, <2>2, <2>3, FS_EmptySet DEF Accounted
<1>2. QED
  BY <1>1, CountAlways, PTL

-----------------------------------------------------------------------------
(* Lots and images, one run at a time. *)

\* Runners that are not off are of the run under way, if there is one.
LEMMA Alone ==
  ASSUME Frame, OneAtATime, NEW r \in Runner, work[r].pc # "off"
  PROVE  /\ \A s \in Runner : work[s].pc # "off" => s[1] = r[1]
         /\ \A j \in Run : run[j].phase # "idle" => j = r[1]
<1>1. r[1] \in Run /\ \A s \in Runner : s[1] \in Run
  BY DEF Runner
<1>2. CASE MayReject
  BY <1>1, <1>2 DEF OneAtATime
<1>3. CASE ~MayReject
  <2>1. \A s \in Runner : work[s].pc # "off" => run[s[1]].phase = "running"
    BY <1>3 DEF Frame, Structure, LiveInv
  <2>2. \A j \in Run : run[j].phase # "idle" => lock = j
    BY DEF Frame, Structure, LockInv
  <2>3. QED
    BY <1>1, <2>1, <2>2
<1>4. QED
  BY <1>2, <1>3

\* The theorem about lots is this with the frame.
LEMMA LotsApart ==
  ASSUME Frame, OneAtATime, NEW r \in Runner, NEW s \in Runner, r # s, work[r].lot # NoLot
  PROVE  work[r].lot # work[s].lot
<1>1. ~Rests(r)
  BY DEF Frame, Structure, RestInv, Off
<1>2. CASE Rests(s)
  BY <1>2 DEF Frame, Structure, RestInv, Off
<1>3. CASE ~Rests(s)
  <2>1. r[1] = s[1] /\ r[1] \in Run
    BY <1>1, <1>3, Alone DEF Rests, Resting, Runner
  <2>2. /\ r = <<r[1], r[2]>> /\ s = <<r[1], s[2]>> /\ r[2] \in Seat /\ s[2] \in Seat
    BY <2>1 DEF Runner
  <2>3. ListOf(r[1]) /\ r[2] # s[2]
    BY <2>1, <2>2 DEF Frame, Structure, ListInv
  <2>4. QED
    BY <1>1, <1>3, <2>2, <2>3 DEF ListOf
<1>4. QED
  BY <1>2, <1>3

\* While a runner has a lot, no manual run is before its first statement.
LEMMA NoneReset ==
  ASSUME Frame, OneAtATime, NEW r \in Runner, ~Rests(r), NEW j \in Run, Manual(j)
  PROVE  run[j].phase # "clear" /\ run[j].todo = {}
<1>0. r = <<r[1], r[2]>> /\ r[1] \in Run /\ r[2] \in Seat /\ work[r].pc # "off"
  BY DEF Runner, Rests, Resting
<1>1. run[j].phase # "idle" => j = r[1]
  BY <1>0, Alone
<1>2. PrepareOf(j) /\ ManualOf(j)
  BY DEF Frame, Structure, PrepareInv, ManualInv
<1>3. run[j].phase # "clear"
  BY <1>0, <1>1, <1>2 DEF PrepareOf, Preparing, AllOff
<1>4. run[j].todo = {}
  BY <1>0, <1>1, <1>2 DEF ManualOf
<1>5. QED
  BY <1>3, <1>4

\* What the outstanding statement of a runner does to the tables: it writes the
\* row of the runner's lot, and leaves an image behind every ok.
LEMMA WriteEffect ==
  ASSUME Frame, ImageInv, NEW r \in Runner, ~Rests(r)
  PROVE  /\ \A m \in Lot : m # work[r].lot => /\ LotsAfter(r)[m] = lots[m]
                                              /\ ImagesAfter(r)[m] = images[m]
         /\ LotsAfter(r)[work[r].lot].status = "ok" => ImagesAfter(r)[work[r].lot] # {}
         /\ work[r].pc = "insert" => work[r].store \subseteq ImagesAfter(r)[work[r].lot]
         /\ work[r].pc = "delete" => ImagesAfter(r)[work[r].lot] # {}
         /\ work[r].pc = "insert" => images[work[r].lot] \subseteq ImagesAfter(r)[work[r].lot]
         /\ work[r].pc \notin {"insert", "delete", "clear", "purge"} => ImagesAfter(r) = images
         /\ work[r].pc \notin {"ok", "missing", "recover"} => LotsAfter(r) = lots
<1> DEFINE l == work[r].lot
<1>0. /\ l \in Lot /\ StoreOf(r) /\ (lots[l].status = "ok" => images[l] # {})
      /\ lots \in [Lot -> LotRow] /\ images \in [Lot -> SUBSET Image]
  BY DEF Frame, Structure, RestInv, ImageInv, OkHasImages, Shape
<1>1. CASE work[r].pc = "insert"
  <2>1. ImagesAfter(r) = [images EXCEPT ![l] = @ \cup work[r].store] /\ LotsAfter(r) = lots
    BY <1>1 DEF ImagesAfter, LotsAfter
  <2>2. QED
    BY <1>0, <1>1, <2>1 DEF StoreOf
<1>2. CASE work[r].pc = "delete"
  <2>1. ImagesAfter(r) = [images EXCEPT ![l] = @ \cap work[r].store] /\ LotsAfter(r) = lots
    BY <1>2 DEF ImagesAfter, LotsAfter
  <2>2. ImagesAfter(r)[l] # {}
    BY <1>0, <1>2, <2>1 DEF StoreOf
  <2>3. QED
    BY <1>0, <1>2, <2>1, <2>2
<1>3. CASE work[r].pc \in {"clear", "purge"}
  <2>1. ImagesAfter(r) = [images EXCEPT ![l] = {}] /\ LotsAfter(r) = lots
    BY <1>3 DEF ImagesAfter, LotsAfter
  <2>2. lots[l].status # "ok"
    BY <1>0, <1>3 DEF StoreOf, Undecided
  <2>3. QED
    BY <1>0, <1>3, <2>1, <2>2
<1>4. CASE work[r].pc = "ok"
  <2>1. ImagesAfter(r) = images /\ LotsAfter(r) = [lots EXCEPT ![l] = [status |-> "ok", count |-> 0]]
    BY <1>4 DEF ImagesAfter, LotsAfter
  <2>2. QED
    BY <1>0, <1>4, <2>1 DEF StoreOf
<1>5. CASE work[r].pc \in {"missing", "recover"}
  <2>1. /\ ImagesAfter(r) = images
        /\ LotsAfter(r) \in {lots, [lots EXCEPT ![l] = MissingOnce(@)]}
    BY <1>5 DEF ImagesAfter, LotsAfter
  <2>2. QED
    BY <1>0, <1>5, <2>1 DEF MissingOnce
<1>6. CASE work[r].pc \notin {"insert", "delete", "clear", "purge", "ok", "missing", "recover"}
  <2>1. ImagesAfter(r) = images /\ LotsAfter(r) = lots
    BY <1>6 DEF ImagesAfter, LotsAfter
  <2>2. QED
    BY <1>0, <1>6, <2>1
<1>7. QED
  BY <1>1, <1>2, <1>3, <1>4, <1>5, <1>6

\* A step of a runner with a lot, reduced to what becomes of that runner: the
\* others have other lots, and what they rely on stays.
LEMMA ImageRunner ==
  ASSUME Frame, OneAtATime, ImageInv, NEW r \in Runner, ~Rests(r), SameRuns,
         \A j \in Run : run'[j].phase = "clear" => run[j].phase = "clear",
         \/ lots' = lots /\ images' = images
         \/ lots' = LotsAfter(r) /\ images' = ImagesAfter(r),
         \A s \in Runner : s # r =>
           \/ work'[s] = work[s]
           \/ /\ work[s].pc = "queued" /\ work'[s].pc = "mmember" /\ work'[s].lot = work[s].lot,
         StoreOf(r)'
  PROVE  ImageInv'
<1> DEFINE l == work[r].lot
<1>0. l \in Lot /\ l # NoLot /\ lots \in [Lot -> LotRow]
  BY PhotoAssumption DEF Frame, Structure, RestInv, Shape
<1>1. /\ \A m \in Lot : m # l => lots'[m] = lots[m] /\ images'[m] = images[m]
      /\ lots'[l].status = "ok" => images'[l] # {}
  BY <1>0, WriteEffect DEF ImageInv, OkHasImages
<1>2. OkHasImages'
  BY <1>1 DEF ImageInv, OkHasImages
<1>3. ASSUME NEW s \in Runner, s # r
      PROVE  StoreOf(s)'
  <2>1. StoreOf(s) /\ s[1] \in Run /\ (Manual(s[1])' <=> Manual(s[1]))
    BY DEF ImageInv, Runner, SameRuns, Manual
  <2>2. CASE Rests(s)
    BY <1>3, <2>1, <2>2 DEF StoreOf, Rests, Resting, Undecided, Tiers
  <2>3. CASE ~Rests(s)
    <3>1. work[s].lot \in Lot /\ work[s].lot # l
      BY <1>0, <1>3, <2>3, LotsApart DEF Frame, Structure, RestInv
    <3>2. lots'[work[s].lot] = lots[work[s].lot] /\ images'[work[s].lot] = images[work[s].lot]
      BY <1>1, <3>1
    <3>3. CASE work'[s] = work[s]
      BY <2>1, <3>2, <3>3 DEF StoreOf
    <3>4. CASE work[s].pc = "queued" /\ work'[s].pc = "mmember" /\ work'[s].lot = work[s].lot
      BY <2>1, <3>2, <3>4 DEF StoreOf, Undecided
    <3>5. QED
      BY <1>3, <3>3, <3>4
  <2>4. QED
    BY <2>2, <2>3
<1>4. ASSUME NEW j \in Run, Manual(j)'
      PROVE  ResetOf(j)'
  <2>1. Manual(j) /\ run'[j].todo = run[j].todo
    BY <1>4 DEF SameRuns, Manual
  <2>2. run[j].phase # "clear" /\ run[j].todo = {}
    BY <2>1, NoneReset
  <2>3. QED
    BY <1>4, <2>1, <2>2 DEF ResetOf
<1>5. QED
  BY <1>2, <1>3, <1>4 DEF ImageInv, ResetOf

\* The steps in the middle of a lot.
LEMMA ImageOnward ==
  ASSUME Frame, SemInv, OneAtATime, ImageInv, NEW r \in Runner,
         \/ Fetch(r) \/ Mmember(r) \/ Inspect(r) \/ ReplaceLotImages(r)
         \/ LogPhotoAttempt(r) \/ Throw(r)
  PROVE  ImageInv'
<1> DEFINE l == work[r].lot
<1>0. ~Rests(r) /\ Onward /\ run' = run /\ r[1] \in Run /\ l \in Lot /\ StoreOf(r)
  BY OnwardStep DEF Frame, Onward, Runner, Structure, RestInv, ImageInv
<1>1. SameRuns /\ (Manual(r[1])' <=> Manual(r[1])) /\ Shape
  BY <1>0 DEF SameRuns, Manual, Frame
<1>2. /\ NoLinks(r) \in PCs /\ NoImages(r) \in PCs
      /\ {"full", "hd", "other", "mmember", "queued", "missing", "delete", "ok", "recover"} \subseteq PCs
  BY DEF NoLinks, NoImages, PCs, Tiers, Writes, Mobile, Resting
<1>3. ASSUME UNCHANGED tables, NEW pc \in PCs, Go(r, pc),
             \/ work[r].pc \in Undecided /\ pc \in Undecided \ {"clear", "purge"}
             \/ work[r].pc \in Undecided /\ pc \in {"clear", "purge"} /\ Manual(r[1])
             \/ pc \in {"missing", "recover"}
      PROVE  ImageInv'
  <2>1. /\ work'[r].pc = pc /\ work'[r].lot = l
        /\ \A s \in Runner : s # r => work'[s] = work[s]
    BY <1>1, <1>3, GoShape
  <2>2. StoreOf(r)'
    BY <1>0, <1>1, <1>3, <2>1 DEF StoreOf, tables, Undecided, Tiers
  <2>3. QED
    BY <1>0, <1>1, <1>3, <2>1, <2>2, ImageRunner DEF tables
<1>4. NoLinks(r) \in {"clear", "missing"} /\ NoImages(r) \in {"purge", "missing"}
      /\ (NoLinks(r) = "clear" => Manual(r[1])) /\ (NoImages(r) = "purge" => Manual(r[1]))
  BY DEF NoLinks, NoImages, Replacing, Manual
<1>5. CASE Fetch(r)
  <2>1. \E pc \in {"mmember", "queued", "full", NoLinks(r)} : Go(r, pc)
    BY <1>5 DEF Fetch, Acquire
  <2>2. QED
    BY <1>2, <1>3, <1>4, <1>5, <2>1 DEF Fetch, Undecided, Tiers
<1>6. CASE Mmember(r)
  <2>1. PICK pc \in {"full", NoLinks(r)} :
          \/ work' = [work EXCEPT ![r].pc = pc]
          \/ /\ sem.queue # << >>
             /\ work' = [work EXCEPT ![r].pc = pc, ![Head(sem.queue)].pc = "mmember"]
    BY <1>6 DEF Mmember
  <2>2. CASE work' = [work EXCEPT ![r].pc = pc]
    BY <1>2, <1>3, <1>4, <1>6, <2>1, <2>2 DEF Mmember, Go, Undecided, Tiers
  <2>3. CASE /\ sem.queue # << >>
             /\ work' = [work EXCEPT ![r].pc = pc, ![Head(sem.queue)].pc = "mmember"]
    <3>1. Head(sem.queue) = sem.queue[1] /\ 1 \in 1..Len(sem.queue) /\ Head(sem.queue) \in Runner
      BY <1>1, <2>3 DEF Shape
    <3> DEFINE h == Head(sem.queue)
    <3>2. work[h].pc = "queued" /\ h # r
      BY <1>6, <3>1 DEF SemInv, Mmember
    <3>3. work' = [[work EXCEPT ![r].pc = pc] EXCEPT ![h].pc = "mmember"]
      BY <2>3
    <3>4. /\ work'[r].pc = pc /\ work'[r].lot = l
          /\ work'[h].pc = "mmember" /\ work'[h].lot = work[h].lot
          /\ \A s \in Runner : s # r /\ s # h => work'[s] = work[s]
      BY SMTT(60), <1>1, <3>1, <3>2, <3>3 DEF Shape, WorkState
    <3>5. StoreOf(r)'
      BY <1>0, <1>1, <1>4, <1>6, <2>1, <3>4 DEF StoreOf, Mmember, tables, Undecided, Tiers
    <3>6. QED
      BY <1>0, <1>1, <1>6, <3>2, <3>4, <3>5, ImageRunner DEF Mmember, tables
  <2>4. QED
    BY <2>1, <2>2, <2>3
<1>7. CASE Inspect(r)
  <2>1. ASSUME NEW good \in SUBSET Image, good # {},
               work' = [work EXCEPT ![r].pc = "insert", ![r].store = good]
        PROVE  ImageInv'
    <3>1. work' = [work EXCEPT ![r] = [work[r] EXCEPT !.pc = "insert", !.store = good]]
      BY <2>1
    <3>2. /\ work'[r].pc = "insert" /\ work'[r].store = good
          /\ \A s \in Runner : s # r => work'[s] = work[s]
      BY <1>1, <3>1 DEF Shape, WorkState
    <3>3. StoreOf(r)'
      BY <2>1, <3>2 DEF StoreOf, Undecided, Tiers
    <3>4. QED
      BY <1>0, <1>1, <1>7, <3>2, <3>3, ImageRunner DEF Inspect, tables
  <2>2. CASE \E pc \in {"hd", "other", NoImages(r)} : Go(r, pc)
    BY <1>2, <1>3, <1>4, <1>7, <2>2 DEF Inspect, Undecided, Tiers
  <2>3. QED
    BY <1>7, <2>1, <2>2 DEF Inspect, GoodImages, Tiers
<1>8. CASE ReplaceLotImages(r)
  <2>1. LotsAfter(r) = lots
    BY <1>0, <1>8, WriteEffect DEF ReplaceLotImages
  <2>2. PICK pc \in {"missing", "delete", "ok"} :
          /\ Go(r, pc)
          /\ pc = "delete" <=> work[r].pc = "insert"
          /\ pc = "ok" <=> work[r].pc = "delete"
    BY <1>8 DEF ReplaceLotImages
  <2>3. /\ work'[r].pc = pc /\ work'[r].lot = l /\ work'[r].store = work[r].store
        /\ \A s \in Runner : s # r => work'[s] = work[s]
    BY <1>1, <1>2, <2>2, GoShape
  <2>4. images' = ImagesAfter(r) /\ lots' = LotsAfter(r)
    BY <1>8, <2>1 DEF ReplaceLotImages
  <2>5. /\ work[r].pc = "insert" => work[r].store \subseteq images'[l]
        /\ work[r].pc = "delete" => images'[l] # {}
    BY <1>0, <2>4, WriteEffect
  <2>6. StoreOf(r)'
    BY <1>0, <2>2, <2>3, <2>5 DEF StoreOf, Undecided, Tiers
  <2>7. QED
    BY <1>0, <1>1, <2>3, <2>4, <2>6, ImageRunner
<1>9. CASE LogPhotoAttempt(r)
  BY <1>2, <1>3, <1>9 DEF LogPhotoAttempt
<1>10. CASE Throw(r)
  <2>1. work' = [work EXCEPT ![r] = [work[r] EXCEPT !.pc = "log", !.store = {}]]
    BY <1>10 DEF Throw
  <2>2. /\ work'[r].pc = "log" /\ work'[r].lot = l
        /\ \A s \in Runner : s # r => work'[s] = work[s]
    BY <1>1, <2>1 DEF Shape, WorkState
  <2>3. StoreOf(r)'
    BY <2>2 DEF StoreOf, Undecided, Tiers
  <2>4. QED
    BY <1>0, <1>1, <1>10, <2>2, <2>3, ImageRunner DEF Throw, tables
<1>11. QED
  BY <1>5, <1>6, <1>7, <1>8, <1>9, <1>10

\* A lot is recorded as ok when its images are stored, or as missing.
LEMMA ImageEnd ==
  ASSUME Frame, OneAtATime, ImageInv, NEW r \in Runner, MarkOk(r) \/ MarkMissing(r) \/ Reject(r)
  PROVE  ImageInv'
<1>0. r[1] \in Run /\ ~Rests(r) /\ Shape
  BY DEF Runner, MarkOk, MarkMissing, Reject, Rests, Resting, Frame
<1>1. /\ work'[r].pc \in {"off", "take"}
      /\ \A s \in Runner : s # r => work'[s] = work[s]
  BY <1>0, OffShape DEF MarkOk, MarkMissing, Reject, Shape
<1>2. SameRuns /\ \A j \in Run : run'[j].phase = "clear" => run[j].phase = "clear"
  <2>1. CASE MarkOk(r)
    BY <1>0, <2>1 DEF MarkOk, Shape, RunState, SameRuns
  <2>2. CASE MarkMissing(r)
    BY <1>0, <2>2 DEF MarkMissing, Shape, RunState, SameRuns
  <2>3. CASE Reject(r)
    BY <1>0, <2>3 DEF Reject, Shape, RunState, SameRuns
  <2>4. QED
    BY <2>1, <2>2, <2>3
<1>3. \/ lots' = lots /\ images' = images
      \/ lots' = LotsAfter(r) /\ images' = ImagesAfter(r)
  <2>1. work[r].pc \in {"ok", "missing", "recover", "log"} /\ images' = images
        /\ lots' \in {lots, LotsAfter(r)}
    BY DEF MarkOk, MarkMissing, Reject
  <2>2. ImagesAfter(r) = images
    BY <2>1 DEF ImagesAfter
  <2>3. QED
    BY <2>1, <2>2
<1>4. StoreOf(r)'
  BY <1>1 DEF StoreOf, Undecided, Tiers
<1>5. QED
  BY <1>0, <1>1, <1>2, <1>3, <1>4, ImageRunner

\* The lot of a manual refresh is taken while it is still unknown.
LEMMA ImageTake ==
  ASSUME Frame, ImageInv, NEW r \in Runner, Take(r)
  PROVE  ImageInv'
<1> DEFINE j == r[1]
<1>0. j \in Run /\ Shape /\ UNCHANGED tables
  BY DEF Runner, Frame, Take
<1>1. CASE work' = [work EXCEPT ![r] = Off] /\ run' = run
  <2>1. work'[r].pc = "off" /\ \A s \in Runner : s # r => work'[s] = work[s]
    BY <1>0, <1>1, OffShape DEF Shape
  <2>2. \A s \in Runner : StoreOf(s)'
    BY <1>0, <1>1, <2>1 DEF ImageInv, StoreOf, Undecided, Tiers, tables, Manual
  <2>3. QED
    BY <1>0, <1>1, <2>2 DEF ImageInv, OkHasImages, ResetOf, tables, Manual
<1>2. ASSUME NEW c \in run[j].todo,
             work' = [work EXCEPT ![r] = [pc |-> "fetch", lot |-> c.lot,
                                          count |-> c.count, store |-> {}]],
             run' = [run EXCEPT ![j].todo = @ \ {c}]
      PROVE  ImageInv'
  <2>1. /\ work'[r].pc = "fetch" /\ work'[r].lot = c.lot
        /\ \A s \in Runner : s # r => work'[s] = work[s]
    BY <1>0, <1>2 DEF Shape
  <2>2. \A k \in Run : /\ run'[k].todo \subseteq run[k].todo /\ run'[k].phase = run[k].phase
                       /\ run'[k].lot = run[k].lot /\ (Manual(k)' <=> Manual(k))
    BY <1>0, <1>2 DEF Shape, RunState, Manual
  <2>3. Manual(j) => lots[c.lot].status # "ok"
    BY <1>0, <1>2 DEF Frame, Structure, ManualInv, ManualOf, ImageInv, ResetOf
  <2>4. StoreOf(r)'
    BY <1>0, <2>1, <2>2, <2>3 DEF StoreOf, tables
  <2>5. \A s \in Runner : s # r => StoreOf(s)'
    BY <1>0, <2>1, <2>2 DEF ImageInv, StoreOf, tables, Runner
  <2>6. \A k \in Run : ResetOf(k)'
    BY <1>0, <2>2 DEF ImageInv, ResetOf, tables
  <2>7. QED
    BY <1>0, <2>4, <2>5, <2>6 DEF ImageInv, OkHasImages, tables
<1>3. QED
  BY <1>1, <1>2 DEF Take

\* A run begins and ends beside no runner with a lot that it could disturb: the
\* reset makes its lot unknown, and a lot without a URL is cleared after that.
LEMMA ImageRun ==
  ASSUME Frame, OneAtATime, ImageInv, NEW j \in Run,
         \/ Start(j) \/ (\E l \in Lot : StartManual(j, l))
         \/ RunStep(j) \/ Abort(j) \/ CompleteFails(j)
  PROVE  ImageInv'
<1>0. Shape /\ PrepareOf(j) /\ ManualOf(j) /\ \A k \in Run, i \in Seat : <<k, i>> \in Runner
  BY DEF Frame, Structure, PrepareInv, ManualInv, Runner
<1>1. ASSUME UNCHANGED tables,
             \A s \in Runner : \/ work'[s].pc \in Resting
                               \/ work'[s] = work[s] /\ (Manual(s[1])' <=> Manual(s[1])),
             \A k \in Run : Manual(k)' /\ (run'[k].phase = "clear" \/ run'[k].todo # {}) =>
                              /\ Manual(k) /\ run'[k].lot = run[k].lot
                              /\ run[k].phase = "clear" \/ run[k].todo # {}
      PROVE  ImageInv'
  <2>1. ASSUME NEW s \in Runner
        PROVE  StoreOf(s)'
    <3>1. CASE work'[s].pc \in Resting
      BY <3>1 DEF StoreOf, Undecided, Tiers, Resting
    <3>2. CASE work'[s] = work[s] /\ (Manual(s[1])' <=> Manual(s[1]))
      BY <1>1, <3>2 DEF ImageInv, StoreOf, tables
    <3>3. QED
      BY <1>1, <3>1, <3>2
  <2>2. \A k \in Run : ResetOf(k)'
    BY <1>1 DEF ImageInv, ResetOf, tables
  <2>3. QED
    BY <1>1, <2>1, <2>2 DEF ImageInv, OkHasImages, tables
<1>2. CASE Start(j) \/ \E l \in Lot : StartManual(j, l)
  <2>1. PICK mode \in Modes, l \in Lot \cup {NoLot}, phase \in {"create", "reset"} :
          run' = [run EXCEPT ![j] = FreshRun(mode, l, phase)]
    BY <1>2 DEF Start, StartManual, Modes
  <2>2. /\ run'[j].phase # "clear" /\ run'[j].todo = {}
        /\ \A k \in Run : k # j => run'[k] = run[k]
    BY <1>0, <2>1 DEF Shape, FreshRun
  <2>3. /\ UNCHANGED tables /\ work' = work
        /\ \A i \in Seat : work[<<j, i>>].pc \in Resting
    BY <1>2, OffShape DEF Start, StartManual, Resting
  <2>4. \A s \in Runner : work'[s].pc \in Resting \/ s[1] # j
    BY <2>3 DEF Runner
  <2>5. \A s \in Runner : s[1] # j => work'[s] = work[s] /\ (Manual(s[1])' <=> Manual(s[1]))
    BY <2>2, <2>3 DEF Runner, Manual
  <2>6. \A k \in Run : k # j => run'[k] = run[k] /\ (Manual(k)' <=> Manual(k))
    BY <2>2 DEF Manual
  <2>7. QED
    BY <1>1, <2>2, <2>3, <2>4, <2>5, <2>6
<1>3. CASE FetchCandidates(j)
  <2>1. ~Manual(j)' /\ ~Manual(j) /\ \A k \in Run : k # j => run'[k] = run[k]
    <3>1. run'[j].mode = run[j].mode /\ \A k \in Run : k # j => run'[k] = run[k]
      BY ZenonT(60), <1>0, <1>3, FetchEffect DEF Frame, Shape
    <3>2. QED
      BY <1>0, <1>3, <3>1 DEF FetchCandidates, PrepareOf, Preparing, Manual
  <2>2. \A k \in Run : (Manual(k)' <=> Manual(k)) /\ (Manual(k) => run'[k] = run[k])
    BY <2>1 DEF Manual
  <2>3. \A s \in Runner : work'[s].pc \in Resting \/ work'[s] = work[s]
    BY <1>3, OffShape DEF FetchCandidates, Resting
  <2>4. \A s \in Runner : s[1] \in Run
    BY DEF Runner
  <2>5. UNCHANGED tables
    BY <1>3 DEF FetchCandidates
  <2>6. QED
    BY <1>1, <2>2, <2>3, <2>4, <2>5
<1>4. ASSUME run[j].phase \in Preparing
      PROVE  \A s \in Runner : work[s].pc = "off"
  <2>1. AllOff(j) /\ run[j].phase # "idle"
    BY <1>0, <1>4 DEF PrepareOf, Preparing
  <2>2. ASSUME NEW s \in Runner, work[s].pc # "off"
        PROVE  FALSE
    <3>1. s[1] = j /\ s = <<s[1], s[2]>> /\ s[2] \in Seat
      BY <2>1, <2>2, Alone DEF Runner
    <3>2. QED
      BY <2>1, <2>2, <3>1 DEF AllOff
  <2>3. QED
    BY <2>2
<1>5. CASE ResetLot(j)
  <2>1. run[j].phase = "reset" /\ run[j].phase \in Preparing /\ run[j].lot \in Lot /\ Manual(j)
    BY <1>0, <1>5 DEF ResetLot, PrepareOf, ManualOf, Preparing
  <2>2. \A s \in Runner : work'[s].pc \in Resting
    <3>1. CASE UNCHANGED work
      BY <1>4, <2>1, <3>1 DEF Resting
    <3>2. ASSUME NEW i \in Seat, work' = [work EXCEPT ![<<j, i>>].pc = "take"]
          PROVE  \A s \in Runner : work'[s].pc \in Resting
      <4>1. work'[<<j, i>>].pc = "take" /\ \A s \in Runner : s # <<j, i>> => work'[s] = work[s]
        BY <1>0, <3>2 DEF Shape, WorkState
      <4>2. QED
        BY <1>4, <2>1, <4>1 DEF Resting
    <3>3. QED
      BY <1>5, <3>1, <3>2 DEF ResetLot
  <2>3. \A s \in Runner : StoreOf(s)'
    BY <2>2 DEF StoreOf, Undecided, Tiers, Resting
  <2>4. images' = images /\ lots' = [lots EXCEPT ![run[j].lot] = [status |-> "unknown", count |-> 0]]
    BY <1>5 DEF ResetLot
  <2>5. OkHasImages'
    BY <1>0, <2>4 DEF ImageInv, OkHasImages, Shape
  <2>6. lots'[run[j].lot].status = "unknown"
    BY <1>0, <2>1, <2>4 DEF Shape
  <2>7. run'[j].lot = run[j].lot /\ \A k \in Run : k # j => run'[k] = run[k]
    BY <1>0, <1>5 DEF ResetLot, Shape, RunState
  <2>8. ASSUME NEW k \in Run, k # j, Manual(k)
        PROVE  run[k].phase # "clear" /\ run[k].todo = {}
    BY <2>1, <2>8 DEF Frame, Structure, LockInv, ManualInv, ManualOf
  <2>9. \A k \in Run : ResetOf(k)'
    BY <2>6, <2>7, <2>8 DEF ResetOf, Manual
  <2>10. QED
    BY <2>3, <2>5, <2>9 DEF ImageInv
<1>6. CASE ClearLot(j)
  <2>1. run[j].phase = "clear" /\ run[j].phase \in Preparing /\ run[j].lot \in Lot /\ Manual(j)
    BY <1>0, <1>6 DEF ClearLot, PrepareOf, ManualOf, Preparing
  <2>2. \A s \in Runner : StoreOf(s)'
    BY <1>4, <1>6, <2>1 DEF ClearLot, StoreOf, Undecided, Tiers
  <2>3. lots[run[j].lot].status # "ok"
    BY <2>1 DEF ImageInv, ResetOf
  <2>4. OkHasImages'
    BY <1>0, <1>6, <2>3 DEF ClearLot, ImageInv, OkHasImages, Shape
  <2>5. \A k \in Run : /\ run'[k].mode = run[k].mode /\ run'[k].lot = run[k].lot
                       /\ run'[k].todo = run[k].todo
                       /\ run'[k].phase = "clear" => run[k].phase = "clear"
    BY <1>0, <1>6 DEF ClearLot, Shape, RunState
  <2>6. \A k \in Run : ResetOf(k)'
    BY <1>6, <2>5 DEF ClearLot, ImageInv, ResetOf, Manual
  <2>7. QED
    BY <2>2, <2>4, <2>6 DEF ImageInv
<1>7. CASE Abort(j) \/ CompleteSuccess(j) \/ CompleteFails(j) \/ CompleteFailure(j)
  <2>1. \A k \in Run : /\ run'[k].mode = run[k].mode /\ run'[k].lot = run[k].lot
                       /\ run'[k].todo = run[k].todo
                       /\ run'[k].phase = "clear" => run[k].phase = "clear"
    <3>1. CASE Abort(j)
      BY <1>0, <3>1 DEF Abort, Shape, RunState
    <3>2. CASE CompleteSuccess(j)
      BY <1>0, <3>2 DEF CompleteSuccess, Shape, RunState
    <3>3. CASE CompleteFails(j)
      BY <1>0, <3>3 DEF CompleteFails, Shape, RunState
    <3>4. CASE CompleteFailure(j)
      BY <1>0, <3>4 DEF CompleteFailure, Shape, RunState
    <3>5. QED
      BY <1>7, <3>1, <3>2, <3>3, <3>4
  <2>2. UNCHANGED tables /\ work' = work
    BY <1>7 DEF Abort, CompleteSuccess, CompleteFails, CompleteFailure
  <2>3. \A s \in Runner : work'[s] = work[s] /\ (Manual(s[1])' <=> Manual(s[1]))
    BY <2>1, <2>2 DEF Runner, Manual
  <2>4. QED
    BY <1>1, <2>1, <2>2, <2>3 DEF Manual
<1>8. QED
  BY <1>2, <1>3, <1>5, <1>6, <1>7 DEF RunStep

\* The death of the process and the statements of the ingest, which only run
\* while nobody holds the locks.
LEMMA ImageOther ==
  ASSUME Frame, ImageInv,
         Crash \/ (\E l \in Lot : UpsertUrl(l)) \/ Hydrate \/ UNCHANGED vars
  PROVE  ImageInv'
<1>0. Shape
  BY DEF Frame
<1>1. CASE Crash
  <2>1. \A s \in Runner : work'[s].pc = "off"
    BY <1>1, OffShape DEF Crash
  <2>2. \A j \in Run : run'[j].phase = "idle" /\ run'[j].todo = {}
    BY <1>0, <1>1 DEF Crash, Shape, RunState
  <2>3. \A s \in Runner : StoreOf(s)'
    BY <2>1 DEF StoreOf, Undecided, Tiers
  <2>4. \A j \in Run : ResetOf(j)'
    BY <2>2 DEF ResetOf
  <2>5. QED
    BY <1>1, <2>3, <2>4 DEF Crash, ImageInv, OkHasImages, tables
<1>2. ASSUME NEW l \in Lot, UpsertUrl(l)
      PROVE  ImageInv'
  <2>1. \A m \in Lot : lots'[m].status = "ok" => lots[m].status = "ok"
    BY <1>0, <1>2 DEF UpsertUrl, Shape
  <2>2. \A s \in Runner : work[s].pc \in Undecided => work[s].lot \in Lot
    BY DEF Frame, Structure, RestInv, Rests, Resting, Undecided, Tiers
  <2>3. \A s \in Runner : StoreOf(s)'
    BY <1>2, <2>1, <2>2 DEF UpsertUrl, ImageInv, StoreOf, Manual
  <2>4. \A j \in Run : Manual(j) => run[j].lot \in Lot
    BY DEF Frame, Structure, ManualInv, ManualOf
  <2>5. \A j \in Run : ResetOf(j)'
    BY <1>2, <2>1, <2>4 DEF UpsertUrl, ImageInv, ResetOf, Manual
  <2>6. QED
    BY <1>2, <2>1, <2>3, <2>5 DEF UpsertUrl, ImageInv, OkHasImages
<1>3. CASE Hydrate
  <2>1. \A j \in Run : run[j].phase = "idle"
    BY <1>3, PhotoAssumption DEF Hydrate, Frame, Structure, LockInv
  <2>2. \A j \in Run : Manual(j) => run[j].todo = {} /\ AllOff(j)
    BY <2>1 DEF Frame, Structure, ManualInv, ManualOf, AllOff
  <2>3. \A s \in Runner : Manual(s[1]) => work[s].pc = "off"
    <3>1. \A s \in Runner : s = <<s[1], s[2]>> /\ s[1] \in Run /\ s[2] \in Seat
      BY DEF Runner
    <3>2. QED
      BY <2>2, <3>1 DEF AllOff
  <2>4. \A s \in Runner : StoreOf(s)'
    BY <1>3, <2>3 DEF Hydrate, ImageInv, StoreOf, Manual, Undecided, Tiers
  <2>5. \A j \in Run : ResetOf(j)'
    BY <1>3, <2>1, <2>2 DEF Hydrate, ResetOf, Manual
  <2>6. OkHasImages'
    BY <1>0, <1>3 DEF Hydrate, ImageInv, OkHasImages, Shape
  <2>7. QED
    BY <2>4, <2>5, <2>6 DEF ImageInv
<1>4. CASE UNCHANGED vars
  BY <1>4 DEF vars, tables, ImageInv, OkHasImages, StoreOf, ResetOf, Manual
<1>5. QED
  BY <1>1, <1>2, <1>3, <1>4

\* What is recorded as ok has its images behind it in every state.
THEOREM ImageAlways ==
  ASSUME OneAtATime
  PROVE  Spec => [](Frame /\ SemInv /\ ImageInv)
<1>1. Init => ImageInv
  <2> SUFFICES ASSUME Init PROVE ImageInv
    OBVIOUS
  <2>1. \A s \in Runner : StoreOf(s)
    BY OffShape DEF Init, StoreOf, Undecided, Tiers
  <2>2. \A j \in Run : ResetOf(j)
    BY DEF Init, ResetOf, Manual, FreshRun
  <2>3. QED
    BY <2>1, <2>2 DEF Init, ImageInv, OkHasImages
<1>2. Frame /\ SemInv /\ ImageInv /\ [Next]_vars => ImageInv'
  <2> SUFFICES ASSUME Frame, SemInv, ImageInv, [Next]_vars PROVE ImageInv'
    OBVIOUS
  <2>1. ASSUME NEW r \in Runner, RunnerStep(r) \/ Throw(r) \/ Reject(r)
        PROVE  ImageInv'
    BY <2>1, ImageTake, ImageOnward, ImageEnd DEF RunnerStep
  <2>2. QED
    BY <2>1, ImageRun, ImageOther, NextCases
<1>3. QED
  BY <1>1, <1>2, FrameAlways, PTL DEF Spec

\* photo_status = ok is backed by a stored good image in every state, between
\* the statements of the two databases and after a crash included
\* (photo-sync.ts:505-543).
THEOREM OkHasImagesAlways ==
  ASSUME OneAtATime
  PROVE  Spec => []OkHasImages
<1>1. ImageInv => OkHasImages
  BY DEF ImageInv
<1>2. QED
  BY <1>1, ImageAlways, PTL

\* No lot is processed by two runners at once, so that the copy of its
\* photo_404_count in the candidate is never stale (photo-sync.ts:216-227).
THEOREM NoLotTwiceAlways ==
  ASSUME OneAtATime
  PROVE  Spec => []NoLotTwice
<1>1. Frame => NoLotTwice
  BY LotsApart DEF NoLotTwice
<1>2. QED
  BY <1>1, FrameAlways, PTL

\* A statement of a runner that takes the last image of a lot is one of the
\* manual refresh of that lot, which still holds the locks.
LEMMA RunnerKeeps ==
  ASSUME Frame, ImageInv, NEW r \in Runner, ~Rests(r), images' = ImagesAfter(r),
         NEW l \in Lot, images[l] # {}, images'[l] = {}
  PROVE  lock # NoRun /\ run[lock].mode = "manual" /\ run[lock].lot = l
<1>0. /\ r = <<r[1], r[2]>> /\ r[1] \in Run /\ r[2] \in Seat
      /\ StoreOf(r) /\ ManualOf(r[1]) /\ work[r].pc # "off"
  BY DEF Runner, ImageInv, Frame, Structure, ManualInv, Rests, Resting
<1>1. l = work[r].lot /\ work[r].pc \in {"clear", "purge"}
  BY WriteEffect
<1>2. Manual(r[1]) /\ run[r[1]].phase = "running" /\ run[r[1]].lot = l
  BY <1>0, <1>1 DEF StoreOf, ManualOf
<1>3. lock = r[1]
  BY <1>0, <1>2 DEF Frame, Structure, LockInv
<1>4. QED
  BY <1>0, <1>2, <1>3, PhotoAssumption DEF Manual

\* A lot that has images loses the last of them only to its own manual refresh:
\* never to a bulk run, to one that fails halfway or to a crash.
THEOREM KeepsSomeImageAlways ==
  ASSUME OneAtATime
  PROVE  Spec => KeepsSomeImage
<1>1. ASSUME Frame, SemInv, ImageInv, [Next]_vars, NEW l \in Lot, images[l] # {}, images'[l] = {}
      PROVE  lock # NoRun /\ run[lock].mode = "manual" /\ run[lock].lot = l
  <2>1. ASSUME NEW r \in Runner, RunnerStep(r) \/ Throw(r) \/ Reject(r)
        PROVE  ~Rests(r) /\ images' = ImagesAfter(r)
    <3>1. CASE ReplaceLotImages(r)
      BY <3>1 DEF ReplaceLotImages, Rests, Resting
    <3>2. CASE Throw(r)
      BY <1>1, <3>2 DEF Throw, Rests, Resting, Writes, Tiers, tables
    <3>3. CASE ~ReplaceLotImages(r) /\ ~Throw(r)
      BY <1>1, <2>1, <3>3 DEF RunnerStep, Take, Fetch, Mmember, Inspect, MarkOk, MarkMissing,
         LogPhotoAttempt, Reject, tables
    <3>4. QED
      BY <3>1, <3>2, <3>3
  <2>2. ASSUME NEW j \in Run, \/ Start(j) \/ (\E m \in Lot : StartManual(j, m))
                              \/ RunStep(j) \/ Abort(j) \/ CompleteFails(j)
        PROVE  ClearLot(j)
    BY <1>1, <2>2 DEF Start, StartManual, RunStep, FetchCandidates, ResetLot, CompleteSuccess,
       CompleteFailure, Abort, CompleteFails, tables
  <2>3. ASSUME NEW j \in Run, ClearLot(j)
        PROVE  lock # NoRun /\ run[lock].mode = "manual" /\ run[lock].lot = l
    <3>1. lock = j /\ Manual(j) /\ l = run[j].lot
      BY <1>1, <2>3 DEF ClearLot, Frame, Shape, Structure, LockInv, PrepareInv, PrepareOf, Preparing
    <3>2. QED
      BY <3>1, PhotoAssumption DEF Manual
  <2>4. QED
    BY <1>1, <2>1, <2>2, <2>3, RunnerKeeps, NextCases DEF Crash, UpsertUrl, Hydrate, vars, tables
<1>2. Frame /\ SemInv /\ ImageInv /\ [Next]_vars =>
        [\A l \in Lot : images[l] # {} /\ images'[l] = {} =>
           lock # NoRun /\ run[lock].mode = "manual" /\ run[lock].lot = l]_vars
  BY <1>1
<1>3. QED
  BY <1>2, ImageAlways, PTL DEF Spec, KeepsSomeImage
=============================================================================
