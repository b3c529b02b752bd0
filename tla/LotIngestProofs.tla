-------------------------- MODULE LotIngestProofs ---------------------------
(***************************************************************************)
(* Proofs about LotIngest for every set of lots and URLs, every feed of    *)
(* any length, every batch size, row limit, threshold and retry count.     *)
(*                                                                         *)
(* The stage table holds the lots of the rows written so far, and the      *)
(* table lots shows, of each of them, the last row: with a whole feed this *)
(* is what lets the prune delete the rest and call the result a snapshot.  *)
(***************************************************************************)
EXTENDS LotIngest, FiniteSetTheorems, WellFoundedInduction, TLAPS

\* The rows among the first k that a later one of their lot does not replace.
Latest(k) ==
  {i \in ValidAt(k) : \A j \in ValidAt(k) : feed[j].lot = feed[i].lot => j <= i}

Shows(i) == lots[feed[i].lot] # NoLot /\ lots[feed[i].lot].url = feed[i].url

-----------------------------------------------------------------------------
(* The parts of the inductive invariant. *)

Written == {"read", "stage", "upsert", "hydrate", "prune", "orphans"}

\* The rows written so far are in the table, and their lots in the stage; one
\* statement of a batch is ahead of the other.
WrittenInv ==
  /\ pc \in Written => \A i \in Latest(flushed) : Shows(i)
  /\ pc \in {"read", "stage"} => stage = LotsAt(ValidAt(flushed))
  /\ pc \in Written \ {"read", "stage"} => stage = LotsAt(ValidAt(pos))

\* The feed is read to its end unless the limit stopped it.
EndInv ==
  /\ pc \in {"hydrate", "prune", "orphans"} => flushed = pos /\ (limited \/ pos = Len(feed))
  /\ pc \in {"prune", "orphans"} => Prune /\ ~limited
  /\ pc = "prune" => ~TooInvalid
  /\ pc = "orphans" => Stored = stage

\* What a run that pruned leaves behind.
Snapshot ==
  /\ Stored = LotsAt(ValidAt(Len(feed)))
  /\ \A i \in Latest(Len(feed)) : Shows(i)
  /\ media \subseteq Stored

ResultInv ==
  /\ pc = "complete" /\ Prune /\ ~limited => Snapshot
  /\ runRow = "success" => /\ pc \in {"cleanup", "idle", "create"}
                           /\ Prune /\ ~limited => Snapshot

IngestInv == TypeOK /\ OkHasMedia /\ WrittenInv /\ EndInv /\ ResultInv

-----------------------------------------------------------------------------
(* Feeds. *)

\* A nonempty set of natural numbers has a least element.
LEMMA FirstOf ==
  ASSUME NEW D \in SUBSET Nat, D # {}
  PROVE  \E d \in D : \A e \in D : d <= e
<1> DEFINE Less == {ss \in Nat \X Nat : ss[1] < ss[2]}
<1>1. IsWellFoundedOn(Less, Nat)
  BY NatLessThanWellFounded DEF OpToRel
<1>2. PICK d \in D : \A e \in D : <<e, d>> \notin Less
  <2> HIDE DEF Less
  <2> QED
    BY <1>1, WFMin
<1>3. \A e \in D : e \in Nat /\ d \in Nat /\ ~(e < d)
  BY <1>2
<1>4. QED
  BY <1>3

\* A nonempty set of positions has a last one.
LEMMA LastOf ==
  ASSUME NEW k \in Nat, NEW I \in SUBSET (1..k), I # {}
  PROVE  \E i \in I : \A j \in I : j <= i
<1> DEFINE D == {k - i : i \in I}
<1>0. \A i \in I : i \in Nat /\ i <= k /\ k - i \in Nat
  OBVIOUS
<1>1. D \in SUBSET Nat /\ D # {}
  BY <1>0
<1>2. PICK d \in D : \A e \in D : d <= e
  <2> HIDE DEF D
  <2> QED
    BY <1>1, FirstOf
<1>3. PICK i \in I : d = k - i
  BY <1>2
<1>4. \A j \in I : k - i <= k - j
  BY <1>2, <1>3
<1>5. QED
  BY <1>0, <1>4

\* LastUrl is the URL of the last row of the lot.
LEMMA LastUrlIs ==
  ASSUME NEW k \in Nat, NEW I \in SUBSET (1..k), NEW l \in LotsAt(I)
  PROVE  \E i \in I : /\ feed[i].lot = l /\ \A j \in I : feed[j].lot = l => j <= i
                      /\ LastUrl(I, l) = feed[i].url
<1> DEFINE J == {i \in I : feed[i].lot = l}
           last == CHOOSE i \in I : feed[i].lot = l /\ \A j \in I : feed[j].lot = l => j <= i
<1>1. J \in SUBSET (1..k) /\ J # {}
  BY DEF LotsAt
<1>2. PICK i \in J : \A j \in J : j <= i
  BY <1>1, LastOf
<1>3. \E n \in I : feed[n].lot = l /\ \A j \in I : feed[j].lot = l => j <= n
  BY <1>2
<1>4. last \in I /\ feed[last].lot = l /\ \A j \in I : feed[j].lot = l => j <= last
  BY <1>3
<1>5. QED
  BY <1>4 DEF LastUrl

\* The rows read are rows.
LEMMA RowsRead ==
  ASSUME TypeOK
  PROVE  /\ feed \in Seq(Row) /\ Len(feed) \in Nat /\ pos \in Nat /\ flushed \in Nat
         /\ flushed <= pos /\ pos <= Len(feed)
         /\ \A i \in 1..Len(feed) : feed[i] \in Row
         /\ \A k \in 0..Len(feed) : ValidAt(k) \in SUBSET (1..k) /\ LotsAt(ValidAt(k)) \subseteq Lot
         /\ Batch \in SUBSET (1..pos) /\ LotsAt(Batch) \subseteq Lot
<1>1. feed \in Seq(Row)
  <2>1. << >> \in Seq(Row)
    OBVIOUS
  <2>2. QED
    BY <2>1, IngestAssumption DEF TypeOK
<1>2. Len(feed) \in Nat /\ pos \in Nat /\ flushed \in Nat /\ flushed <= pos /\ pos <= Len(feed)
  BY <1>1 DEF TypeOK
<1>3. \A i \in 1..Len(feed) : feed[i] \in Row
  BY <1>1
<1>4. \A k \in 0..Len(feed) : \A i \in 1..k : feed[i].lot \in Lot
  BY <1>2, <1>3 DEF Row
<1>5. QED
  BY <1>1, <1>2, <1>3, <1>4 DEF ValidAt, LotsAt, Batch

\* What the upsert of a batch makes of a lot: a row with the last URL of the
\* lot in the batch, or what there was.  It makes nothing ok.
LEMMA UpsertedIs ==
  ASSUME TypeOK, NEW l \in Lot
  PROVE  /\ Upserted(l) \in LotRow \cup {NoLot}
         /\ l \notin LotsAt(Batch) => Upserted(l) = lots[l]
         /\ l \in LotsAt(Batch) => /\ Upserted(l) \in LotRow
                                   /\ Upserted(l).url = LastUrl(Batch, l)
         /\ lots[l] # NoLot => Upserted(l) # NoLot
         /\ Upserted(l) = lots[l] \/ Upserted(l).status = "unknown"
<1>1. CASE l \notin LotsAt(Batch)
  BY <1>1 DEF Upserted, TypeOK
<1>2. CASE l \in LotsAt(Batch)
  <2>1. PICK i \in Batch : LastUrl(Batch, l) = feed[i].url
    BY <1>2, RowsRead, LastUrlIs
  <2>2. LastUrl(Batch, l) \in Url
    BY <2>1, RowsRead DEF Row
  <2>3. [url |-> LastUrl(Batch, l), status |-> "unknown"] \in LotRow
    BY <2>2 DEF LotRow
  <2>4. lots[l] = NoLot \/ lots[l] \in LotRow
    BY DEF TypeOK
  <2>5. CASE lots[l] # NoLot /\ lots[l].url = LastUrl(Batch, l)
    BY <1>2, <2>4, <2>5 DEF Upserted
  <2>6. CASE ~(lots[l] # NoLot /\ lots[l].url = LastUrl(Batch, l))
    BY <1>2, <2>3, <2>6, IngestAssumption DEF Upserted
  <2>7. QED
    BY <2>5, <2>6
<1>3. QED
  BY <1>1, <1>2

\* The hydration changes nothing of a lot but its status, to ok where there is
\* an image.
LEMMA HydratedIs ==
  ASSUME TypeOK, NEW l \in Lot
  PROVE  /\ Hydrated(l) \in LotRow \cup {NoLot}
         /\ Hydrated(l) = NoLot <=> lots[l] = NoLot
         /\ lots[l] # NoLot => Hydrated(l).url = lots[l].url
         /\ Hydrated(l) = lots[l] \/ l \in media
<1>1. lots[l] = NoLot \/ lots[l] \in LotRow
  BY DEF TypeOK
<1>2. lots[l] \in LotRow => [lots[l] EXCEPT !.status = "ok"] \in LotRow
  BY DEF LotRow
<1>3. QED
  BY <1>1, <1>2, IngestAssumption DEF Hydrated, LotRow

-----------------------------------------------------------------------------
(* Types, and images behind every ok. *)

\* The table lots keeps its type, and its ok has images, whatever a step does.
LEMMA LotsStep ==
  ASSUME TypeOK, OkHasMedia, [Next]_vars
  PROVE  lots' \in [Lot -> LotRow \cup {NoLot}] /\ media' \subseteq Lot /\ OkHasMedia'
<1> USE DEF OkHasMedia, Stored
<1>1. CASE UpsertLotsBatch
  BY <1>1, UpsertedIs DEF UpsertLotsBatch, TypeOK
<1>2. CASE Hydrate
  BY <1>2, HydratedIs DEF Hydrate, TypeOK
<1>3. CASE PruneMissingLots
  BY <1>3 DEF PruneMissingLots, TypeOK
<1>4. CASE PruneOrphanLotImages
  BY <1>4 DEF PruneOrphanLotImages, TypeOK
<1>5. ASSUME NEW l \in Lot, PhotoJob(l)
      PROVE  lots' \in [Lot -> LotRow \cup {NoLot}] /\ media' \subseteq Lot /\ OkHasMedia'
  <2>1. lots[l] \in LotRow
    BY <1>5 DEF PhotoJob, TypeOK
  <2>2. /\ [lots[l] EXCEPT !.status = "ok"] \in LotRow
        /\ [lots[l] EXCEPT !.status = "missing"] \in LotRow
        /\ [lots[l] EXCEPT !.status = "missing"].status = "missing"
    BY <2>1 DEF LotRow
  <2>3. CASE media' = media \cup {l} /\ lots' = [lots EXCEPT ![l].status = "ok"]
    BY <2>2, <2>3 DEF TypeOK
  <2>4. CASE UNCHANGED media /\ lots' = [lots EXCEPT ![l].status = "missing"]
    BY <2>2, <2>4 DEF TypeOK
  <2>5. QED
    BY <1>5, <2>3, <2>4 DEF PhotoJob
<1>6. CASE UNCHANGED <<lots, media>>
  BY <1>6 DEF TypeOK
<1>7. QED
  BY <1>1, <1>2, <1>3, <1>4, <1>5, <1>6 DEF Next, IngestStep, Start, CreateRun, ClearStage, ReadRow,
     StopReading, StageLotNumbers, PruneRefused, CompleteSuccess, RecordFailure, CleanUp, Crash,
     Fail, tables, vars

\* The types are inductive.
LEMMA TypeStep ==
  ASSUME TypeOK, OkHasMedia, [Next]_vars
  PROVE  TypeOK'
<1>1. lots' \in [Lot -> LotRow \cup {NoLot}] /\ media' \subseteq Lot
  BY LotsStep
<1>2. stage' \subseteq Lot /\ runRow' \in {"none", "running", "success", "failed"}
  <2>1. CASE StageLotNumbers
    BY <2>1, RowsRead DEF StageLotNumbers, TypeOK
  <2>2. CASE ~StageLotNumbers
    BY <2>2 DEF TypeOK, Next, IngestStep, Start, CreateRun, ClearStage, ReadRow, StopReading,
       UpsertLotsBatch, Hydrate, PruneMissingLots, PruneRefused, PruneOrphanLotImages,
       CompleteSuccess, RecordFailure, CleanUp, Crash, Fail, PhotoJob, tables, vars
  <2>3. QED
    BY <2>1, <2>2
<1>3. /\ feed' \in Feeds \cup {<< >>} /\ flushed' \in 0..pos' /\ pos' \in 0..Len(feed')
      /\ limited' \in BOOLEAN
  <2>1. CASE ClearStage
    <3>1. feed' \in Seq(Row)
      BY <2>1, IngestAssumption DEF ClearStage
    <3>2. Len(feed') \in Nat /\ pos' = 0 /\ flushed' = 0 /\ limited' = FALSE
      BY <2>1, <3>1 DEF ClearStage
    <3>3. pos' \in 0..Len(feed') /\ flushed' \in 0..pos'
      BY <3>2
    <3>4. QED
      BY <2>1, <3>2, <3>3 DEF ClearStage
  <2>2. CASE ReadRow
    BY <2>2, RowsRead DEF ReadRow, TypeOK
  <2>3. CASE StopReading
    BY <2>3 DEF StopReading, TypeOK
  <2>4. CASE UpsertLotsBatch
    BY <2>4, RowsRead DEF UpsertLotsBatch, TypeOK
  <2>5. CASE UNCHANGED reader
    BY <2>5 DEF reader, TypeOK
  <2>6. QED
    BY <2>1, <2>2, <2>3, <2>4, <2>5 DEF Next, IngestStep, Start, CreateRun, StageLotNumbers, Hydrate,
       PruneMissingLots, PruneRefused, PruneOrphanLotImages, CompleteSuccess, RecordFailure,
       CleanUp, Crash, Fail, PhotoJob, reader, vars
<1>4. pc' \in PCs /\ attempt' \in 1..MaxAttempts /\ cause' \in Causes
  <2>1. CASE CleanUp \/ \E c \in {"network", "db"} : Fail(c)
    BY <2>1, IngestAssumption DEF CleanUp, Fail, TypeOK, PCs, Causes
  <2>2. CASE Start
    BY <2>2, IngestAssumption DEF Start, TypeOK, PCs, Causes
  <2>3. CASE ~Start /\ ~CleanUp /\ ~\E c \in {"network", "db"} : Fail(c)
    BY <2>3 DEF TypeOK, PCs, Causes, Next, IngestStep, CreateRun, ClearStage, ReadRow, StopReading,
       StageLotNumbers, UpsertLotsBatch, Hydrate, PruneMissingLots, PruneRefused,
       PruneOrphanLotImages, CompleteSuccess, RecordFailure, Crash, PhotoJob, vars
  <2>4. QED
    BY <2>1, <2>2, <2>3
<1>5. QED
  BY <1>1, <1>2, <1>3, <1>4 DEF TypeOK

-----------------------------------------------------------------------------
(* The stage and the table while the feed is read. *)

\* After the upsert of a batch the table shows the last rows of all that was
\* read, those of earlier batches included.
LEMMA UpsertShows ==
  ASSUME TypeOK, \A i \in Latest(flushed) : Shows(i),
         NEW i \in Latest(pos)
  PROVE  Upserted(feed[i].lot) # NoLot /\ Upserted(feed[i].lot).url = feed[i].url
<1> DEFINE l == feed[i].lot
<1>0. /\ i \in 1..pos /\ feed[i].ok /\ l \in Lot
      /\ \A j \in ValidAt(pos) : feed[j].lot = l => j <= i
      /\ pos \in Nat /\ flushed \in Nat /\ flushed <= pos /\ Batch \in SUBSET (1..pos)
  BY RowsRead DEF Latest, ValidAt, Row
<1>1. \A j \in Batch : j > flushed /\ j \in ValidAt(pos)
  BY <1>0 DEF Batch, ValidAt
<1>2. CASE i \in Batch
  <2>1. l \in LotsAt(Batch)
    BY <1>2 DEF LotsAt
  <2>2. PICK m \in Batch : /\ feed[m].lot = l /\ \A j \in Batch : feed[j].lot = l => j <= m
                           /\ LastUrl(Batch, l) = feed[m].url
    BY <1>0, <2>1, LastUrlIs
  <2>3. m <= i /\ i <= m /\ m \in Nat /\ i \in Nat
    BY <1>0, <1>1, <1>2, <2>2
  <2>4. m = i
    BY <2>3
  <2>5. QED
    BY <1>0, <2>1, <2>2, <2>4, UpsertedIs, IngestAssumption
<1>3. CASE i \notin Batch
  <2>1. i \in ValidAt(flushed)
    BY <1>0, <1>3 DEF Batch, ValidAt
  <2>2. i \in Latest(flushed) /\ i <= flushed
    BY <1>0, <2>1 DEF Latest, ValidAt
  <2>3. l \notin LotsAt(Batch)
    BY <1>0, <1>1, <2>2 DEF LotsAt
  <2>4. QED
    BY <1>0, <2>2, <2>3, UpsertedIs DEF Shows
<1>4. QED
  BY <1>2, <1>3

\* The stage and the table keep up with what was read.
LEMMA WrittenStep ==
  ASSUME TypeOK, EndInv, WrittenInv, [Next]_vars
  PROVE  WrittenInv'
<1> USE DEF Written
<1>0. \A i \in Latest(flushed) : feed[i].lot \in Lot
  BY RowsRead DEF Latest, ValidAt, Row
<1>1. CASE ClearStage
  <2>1. pc' = "read" /\ stage' = {} /\ flushed' = 0
    BY <1>1 DEF ClearStage
  <2>2. ValidAt(flushed)' = {} /\ Latest(flushed)' = {}
    BY <2>1 DEF ValidAt, Latest
  <2>3. LotsAt(ValidAt(flushed))' = {}
    BY <2>2 DEF LotsAt
  <2>4. QED
    BY <2>1, <2>2, <2>3 DEF WrittenInv
<1>2. CASE ReadRow \/ StopReading
  BY <1>2 DEF ReadRow, StopReading, WrittenInv, Latest, ValidAt, LotsAt, Shows, tables
<1>3. CASE StageLotNumbers
  <2>1. LotsAt(ValidAt(pos)) = LotsAt(ValidAt(flushed)) \cup LotsAt(Batch)
    BY RowsRead DEF ValidAt, LotsAt, Batch
  <2>2. stage' = LotsAt(ValidAt(pos))'
    BY <1>3, <2>1 DEF StageLotNumbers, WrittenInv, LotsAt, ValidAt, reader
  <2>3. \A i \in Latest(flushed)' : Shows(i)'
    BY <1>3 DEF StageLotNumbers, WrittenInv, Latest, ValidAt, Shows, reader
  <2>4. QED
    BY <1>3, <2>2, <2>3 DEF StageLotNumbers, WrittenInv
<1>4. CASE UpsertLotsBatch
  <2>1. \A i \in Latest(pos) : Upserted(feed[i].lot) # NoLot /\ Upserted(feed[i].lot).url = feed[i].url
    BY <1>4, UpsertShows DEF UpsertLotsBatch, WrittenInv
  <2>2. \A i \in Latest(pos) : feed[i].lot \in Lot
    BY RowsRead DEF Latest, ValidAt, Row
  <2>3. /\ lots' = [l \in Lot |-> Upserted(l)] /\ flushed' = pos /\ pos' = pos /\ feed' = feed
        /\ stage' = stage /\ stage = LotsAt(ValidAt(pos)) /\ pc' \in {"hydrate", "read"}
    BY <1>4 DEF UpsertLotsBatch, WrittenInv
  <2>4. Latest(flushed)' = Latest(pos) /\ \A i \in Latest(pos) : Shows(i)'
    BY <2>1, <2>2, <2>3 DEF Latest, ValidAt, Shows
  <2>5. LotsAt(ValidAt(flushed))' = LotsAt(ValidAt(pos)) /\ LotsAt(ValidAt(pos))' = LotsAt(ValidAt(pos))
    BY <2>3 DEF LotsAt, ValidAt
  <2>6. QED
    BY <2>3, <2>4, <2>5 DEF WrittenInv
<1>5. CASE Hydrate
  <2>1. \A i \in Latest(flushed) : Shows(i) => Shows(i)'
    BY <1>0, <1>5, HydratedIs DEF Hydrate, Shows, reader
  <2>2. Latest(flushed)' = Latest(flushed) /\ LotsAt(ValidAt(pos))' = LotsAt(ValidAt(pos))
    BY <1>5 DEF Hydrate, Latest, ValidAt, LotsAt, reader
  <2>3. QED
    BY <1>5, <2>1, <2>2 DEF Hydrate, WrittenInv
<1>6. CASE PruneMissingLots
  <2>1. flushed = pos /\ stage = LotsAt(ValidAt(pos)) /\ \A i \in Latest(pos) : Shows(i)
    BY <1>6 DEF PruneMissingLots, EndInv, WrittenInv
  <2>2. \A i \in Latest(pos) : feed[i].lot \in stage
    BY <2>1 DEF Latest, LotsAt
  <2>3. \A i \in Latest(pos) : Shows(i)'
    BY <1>0, <1>6, <2>1, <2>2 DEF PruneMissingLots, Shows, reader
  <2>4. Latest(flushed)' = Latest(pos) /\ LotsAt(ValidAt(pos))' = LotsAt(ValidAt(pos))
    BY <1>6, <2>1 DEF PruneMissingLots, Latest, ValidAt, LotsAt, reader
  <2>5. QED
    BY <1>6, <2>1, <2>3, <2>4 DEF PruneMissingLots, WrittenInv
<1>7. CASE UNCHANGED vars
  BY <1>7 DEF WrittenInv, Latest, ValidAt, LotsAt, Shows, vars
<1>8. CASE pc' \notin Written
  BY <1>8 DEF WrittenInv
<1>9. QED
  BY <1>1, <1>2, <1>3, <1>4, <1>5, <1>6, <1>7, <1>8 DEF Next, IngestStep, Start, CreateRun,
     PruneRefused, PruneOrphanLotImages, CompleteSuccess, RecordFailure, CleanUp, Crash, Fail, PhotoJob

\* Where the ingest is says how far it has read and what it may delete.
LEMMA EndStep ==
  ASSUME TypeOK, EndInv, WrittenInv, [Next]_vars
  PROVE  EndInv'
<1>1. CASE UpsertLotsBatch
  BY <1>1 DEF UpsertLotsBatch, EndInv
<1>2. CASE Hydrate
  <2>1. TooInvalid' <=> TooInvalid
    <3>1. InvalidAt(pos)' = InvalidAt(pos)
      BY <1>2 DEF Hydrate, InvalidAt, reader
    <3>2. QED
      BY <1>2, <3>1 DEF Hydrate, TooInvalid, reader
  <2>2. QED
    BY <1>2, <2>1 DEF Hydrate, EndInv, reader
<1>3. CASE PruneMissingLots
  <2>1. stage \subseteq Stored
    <3>1. flushed = pos /\ stage = LotsAt(ValidAt(pos)) /\ \A i \in Latest(pos) : Shows(i)
      BY <1>3 DEF PruneMissingLots, EndInv, WrittenInv, Written
    <3>2. SUFFICES ASSUME NEW l \in LotsAt(ValidAt(pos)) PROVE l \in Stored
      BY <3>1
    <3>3. PICK i \in ValidAt(pos) : feed[i].lot = l /\ \A j \in ValidAt(pos) : feed[j].lot = l => j <= i
      <4>1. pos \in Nat /\ ValidAt(pos) \in SUBSET (1..pos)
        BY RowsRead
      <4>2. QED
        BY <4>1, LastUrlIs
    <3>4. i \in Latest(pos)
      BY <3>3 DEF Latest
    <3>5. QED
      BY <3>1, <3>3, <3>4, RowsRead DEF Shows, Stored
  <2>2. Stored' = stage
    BY <1>3, <2>1 DEF PruneMissingLots, Stored, TypeOK
  <2>3. QED
    BY <1>3, <2>2 DEF PruneMissingLots, EndInv, reader
<1>4. CASE UNCHANGED vars
  <2>1. TooInvalid' <=> TooInvalid
    BY <1>4 DEF TooInvalid, InvalidAt, vars
  <2>2. QED
    BY <1>4, <2>1 DEF EndInv, Stored, vars
<1>5. CASE pc' \notin {"hydrate", "prune", "orphans"}
  BY <1>5 DEF EndInv
<1>6. QED
  BY <1>1, <1>2, <1>3, <1>4, <1>5 DEF Next, IngestStep, Start, CreateRun, ClearStage, ReadRow,
     StopReading, StageLotNumbers, PruneRefused, PruneOrphanLotImages, CompleteSuccess,
     RecordFailure, CleanUp, Crash, Fail, PhotoJob

\* What a pruning run recorded as a success stays until the next run begins: a
\* photo job in between changes no URL and adds images of stored lots only.
LEMMA ResultStep ==
  ASSUME TypeOK, EndInv, WrittenInv, ResultInv, [Next]_vars
  PROVE  ResultInv'
<1>1. ASSUME Snapshot, feed' = feed, Stored' = Stored, media' \subseteq media \cup Stored,
             \A l \in Lot : lots[l] # NoLot => lots'[l].url = lots[l].url
      PROVE  Snapshot'
  <2>1. \A i \in Latest(Len(feed)) : feed[i].lot \in Lot
    BY RowsRead DEF Latest, ValidAt, Row
  <2>2. \A i \in Latest(Len(feed)) : Shows(i)'
    BY <1>1, <2>1 DEF Snapshot, Shows, Stored
  <2>3. /\ Latest(Len(feed))' = Latest(Len(feed))
        /\ LotsAt(ValidAt(Len(feed)))' = LotsAt(ValidAt(Len(feed)))
    BY <1>1 DEF Latest, ValidAt, LotsAt
  <2>4. QED
    BY <1>1, <2>2, <2>3 DEF Snapshot
<1>2. CASE Hydrate
  BY <1>2 DEF Hydrate, ResultInv, tables, reader
<1>3. CASE PruneOrphanLotImages
  <2>1. /\ pos = Len(feed) /\ flushed = pos /\ stage = LotsAt(ValidAt(pos)) /\ Stored = stage
        /\ \A i \in Latest(flushed) : Shows(i)
    BY <1>3 DEF PruneOrphanLotImages, EndInv, WrittenInv, Written
  <2>2. lots' = lots /\ feed' = feed /\ media' = media \cap Stored
    BY <1>3 DEF PruneOrphanLotImages, reader
  <2>3. Snapshot'
    <3>1. Stored' = LotsAt(ValidAt(Len(feed)))'
      BY <2>1, <2>2 DEF Stored, LotsAt, ValidAt
    <3>2. \A i \in Latest(Len(feed))' : Shows(i)'
      BY <2>1, <2>2 DEF Latest, ValidAt, Shows
    <3>3. QED
      BY <2>2, <3>1, <3>2 DEF Snapshot, Stored
  <2>4. QED
    BY <1>3, <2>3 DEF PruneOrphanLotImages, ResultInv
<1>4. ASSUME NEW l \in Lot, PhotoJob(l)
      PROVE  ResultInv'
  <2>1. lots[l] \in LotRow /\ pc' = pc /\ runRow' = runRow /\ limited' = limited /\ feed' = feed
    BY <1>4 DEF PhotoJob, TypeOK, reader
  <2>2. /\ [lots[l] EXCEPT !.status = "ok"] \in LotRow
        /\ [lots[l] EXCEPT !.status = "ok"].url = lots[l].url
        /\ [lots[l] EXCEPT !.status = "missing"] \in LotRow
        /\ [lots[l] EXCEPT !.status = "missing"].url = lots[l].url
    BY <2>1 DEF LotRow
  <2>3. /\ \A m \in Lot : m # l => lots'[m] = lots[m]
        /\ lots'[l] \in LotRow /\ lots'[l].url = lots[l].url
        /\ media' \subseteq media \cup {l}
    BY <1>4, <2>2 DEF PhotoJob, TypeOK
  <2>4. Stored' = Stored /\ l \in Stored
    BY <2>1, <2>3, IngestAssumption DEF Stored
  <2>5. Snapshot => Snapshot'
    BY <1>1, <2>1, <2>3, <2>4
  <2>6. QED
    BY <1>4, <2>1, <2>5 DEF PhotoJob, ResultInv
<1>5. CASE ClearStage \/ ReadRow \/ StopReading \/ StageLotNumbers \/ UpsertLotsBatch
         \/ PruneMissingLots \/ PruneRefused
  BY <1>5 DEF ClearStage, ReadRow, StopReading, StageLotNumbers, UpsertLotsBatch, PruneMissingLots,
     PruneRefused, ResultInv, tables
<1>6. CASE Start \/ CreateRun \/ CompleteSuccess \/ RecordFailure \/ CleanUp \/ Crash
         \/ (\E c \in {"network", "db"} : Fail(c)) \/ UNCHANGED vars
  <2>1. UNCHANGED <<lots, media, feed, limited>>
    BY <1>6 DEF Start, CreateRun, CompleteSuccess, RecordFailure, CleanUp, Crash, Fail, tables,
       reader, vars
  <2>2. Snapshot => Snapshot'
    BY <1>1, <2>1 DEF Stored
  <2>3. CASE Start \/ CreateRun \/ CompleteSuccess \/ RecordFailure \/ UNCHANGED vars
    BY <2>1, <2>2, <2>3 DEF ResultInv, Start, CreateRun, CompleteSuccess, RecordFailure, tables, vars
  <2>4. CASE CleanUp \/ Crash \/ \E c \in {"network", "db"} : Fail(c)
    BY <2>1, <2>2, <2>4 DEF ResultInv, CleanUp, Crash, Fail, tables
  <2>5. QED
    BY <1>6, <2>3, <2>4
<1>7. QED
  BY <1>2, <1>3, <1>4, <1>5, <1>6 DEF Next, IngestStep

-----------------------------------------------------------------------------
(* The theorems. *)

\* All of the invariant, for any feeds and any failures and crashes.
THEOREM IngestAlways == Spec => []IngestInv
<1>1. Init => IngestInv
  <2> SUFFICES ASSUME Init PROVE IngestInv
    OBVIOUS
  <2>1. TypeOK
    <3>1. feed = << >> /\ Len(feed) = 0 /\ pos = 0 /\ flushed = 0
      BY DEF Init
    <3>2. flushed \in 0..pos /\ pos \in 0..Len(feed) /\ attempt \in 1..MaxAttempts
      BY <3>1, IngestAssumption DEF Init
    <3>3. QED
      BY <3>2 DEF Init, TypeOK, PCs, Causes
  <2>2. OkHasMedia /\ WrittenInv /\ EndInv /\ ResultInv
    BY DEF Init, OkHasMedia, Stored, WrittenInv, Written, EndInv, ResultInv
  <2>3. QED
    BY <2>1, <2>2 DEF IngestInv
<1>2. IngestInv /\ [Next]_vars => IngestInv'
  BY TypeStep, LotsStep, WrittenStep, EndStep, ResultStep DEF IngestInv
<1>3. QED
  BY <1>1, <1>2, PTL DEF Spec

\* Every type: the number of attempts stays within ingest.executionRetries and
\* the batch within what was read (csv-ingest.ts:402-430).
THEOREM TypeCorrect == Spec => []TypeOK
<1>1. IngestInv => TypeOK
  BY DEF IngestInv
<1>2. QED
  BY <1>1, IngestAlways, PTL

\* photo_status = ok has a good stored image behind it, whatever the upsert,
\* the hydration, the pruning of images and the photo jobs do in between.
THEOREM OkHasMediaAlways == Spec => []OkHasMedia
<1>1. IngestInv => OkHasMedia
  BY DEF IngestInv
<1>2. QED
  BY <1>1, IngestAlways, PTL

\* After a successful run that pruned, the table is the snapshot of its feed,
\* whatever the runs before it left in the stage and in the table
\* (README.md:9).
THEOREM SnapshotOnSuccessAlways == Spec => []SnapshotOnSuccess
<1>1. IngestInv => SnapshotOnSuccess
  <2> SUFFICES ASSUME IngestInv, runRow = "success", Prune, ~limited
               PROVE  /\ Stored = LotsAt(ValidAt(Len(feed)))
                      /\ \A l \in Stored : lots[l].url = LastUrl(ValidAt(Len(feed)), l)
    BY DEF SnapshotOnSuccess
  <2>1. Snapshot /\ TypeOK
    BY DEF IngestInv, ResultInv
  <2>2. Len(feed) \in Nat /\ ValidAt(Len(feed)) \in SUBSET (1..Len(feed))
    BY <2>1, RowsRead
  <2>3. ASSUME NEW l \in Stored
        PROVE  lots[l].url = LastUrl(ValidAt(Len(feed)), l)
    <3>1. l \in LotsAt(ValidAt(Len(feed)))
      BY <2>1 DEF Snapshot
    <3>2. PICK i \in ValidAt(Len(feed)) :
            /\ feed[i].lot = l /\ \A j \in ValidAt(Len(feed)) : feed[j].lot = l => j <= i
            /\ LastUrl(ValidAt(Len(feed)), l) = feed[i].url
      BY <2>2, <3>1, LastUrlIs
    <3>3. i \in Latest(Len(feed))
      BY <3>2 DEF Latest
    <3>4. QED
      BY <2>1, <3>2, <3>3 DEF Snapshot, Shows
  <2>4. QED
    BY <2>1, <2>3 DEF Snapshot
<1>2. QED
  BY <1>1, IngestAlways, PTL

\* After a successful run that pruned, no image belongs to a lot that is gone.
THEOREM MediaOfLotsAlways == Spec => []MediaOfLots
<1>1. IngestInv => MediaOfLots
  BY DEF IngestInv, ResultInv, Snapshot, MediaOfLots
<1>2. QED
  BY <1>1, IngestAlways, PTL

\* Only the prune of an attempt that read a whole feed, valid enough, deletes a
\* lot, and only one that the feed does not have: no failure, limit, retry or
\* crash does (csv-ingest.ts:252-282).
THEOREM DeletesOnlyMissingAlways == Spec => DeletesOnlyMissing
<1>1. ASSUME IngestInv, [Next]_vars, NEW l \in Stored, l \notin Stored'
      PROVE  FullFeed /\ ~TooInvalid /\ l \notin LotsAt(ValidAt(pos))
  <2>1. TypeOK /\ l \in Lot /\ lots[l] # NoLot /\ lots'[l] = NoLot /\ lots[l] \in LotRow
    BY <1>1 DEF IngestInv, Stored, TypeOK
  <2>2. ~UpsertLotsBatch /\ ~Hydrate
    BY <2>1, UpsertedIs, HydratedIs DEF UpsertLotsBatch, Hydrate
  <2>3. ASSUME NEW m \in Lot, PhotoJob(m)
        PROVE  FALSE
    <3>1. lots[m] \in LotRow
      BY <2>1, <2>3 DEF PhotoJob, TypeOK
    <3>2. /\ [lots[m] EXCEPT !.status = "ok"] \in LotRow
          /\ [lots[m] EXCEPT !.status = "missing"] \in LotRow
      BY <3>1 DEF LotRow
    <3>3. lots'[l] \in LotRow
      BY <2>1, <2>3, <3>2 DEF PhotoJob, TypeOK
    <3>4. QED
      BY <2>1, <3>3, IngestAssumption
  <2>4. PruneMissingLots
    BY <1>1, <2>1, <2>2, <2>3 DEF Next, IngestStep, Start, CreateRun, ClearStage, ReadRow, StopReading,
       StageLotNumbers, PruneRefused, PruneOrphanLotImages, CompleteSuccess, RecordFailure, CleanUp,
       Crash, Fail, tables, vars
  <2>5. QED
    BY <1>1, <2>1, <2>4 DEF PruneMissingLots, IngestInv, EndInv, WrittenInv, Written, FullFeed
<1>2. IngestInv /\ [Next]_vars =>
        [\A l \in Stored : l \notin Stored' =>
           FullFeed /\ ~TooInvalid /\ l \notin LotsAt(ValidAt(pos))]_vars
  BY <1>1
<1>3. QED
  BY <1>2, IngestAlways, PTL DEF Spec, DeletesOnlyMissing
=============================================================================
