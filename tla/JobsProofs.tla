----------------------------- MODULE JobsProofs -----------------------------
(***************************************************************************)
(* Proofs about Jobs for any number of jobs of any kinds, any number of    *)
(* shards, and any number of processes that die: no two jobs are ever at a *)
(* stage together, a process that has ended by itself leaves no lock in    *)
(* force, a job that holds pipeline_refresh is refused nothing by another  *)
(* job that is alive, jobs never all refuse each other, and all they do to *)
(* their locks is something LeaseService allows.                           *)
(***************************************************************************)
EXTENDS Jobs, FiniteSetTheorems, WellFoundedInduction, TLAPS

JobsSpec == JobsInit /\ [][JobsNext]_jobVars

-----------------------------------------------------------------------------
(* The shape of the programs. *)

\* A list of locks as withAppLocks takes it: nothing in it twice.
Listing(l) ==
  /\ l \in Seq(LockName) /\ Len(l) >= 1
  /\ \A i, j \in 1..Len(l) : l[i] = l[j] => i = j

\* The takes of each program with the closes that end them.
Ends(a, c) ==
  IF a[2] # 0 THEN {<<1, 3>>}
  ELSE IF Kind[a[1]] = "pipeline"
  THEN IF c THEN {<<1, 12>>, <<2, 7>>, <<4, 6>>, <<8, 11>>}
            ELSE {<<1, 11>>, <<2, 7>>, <<4, 6>>, <<8, 10>>}
  ELSE IF Kind[a[1]] = "ingest" THEN {<<1, 6>>, <<3, 5>>}
  ELSE IF Kind[a[1]] = "retry" THEN IF c THEN {<<1, 4>>} ELSE {<<1, 3>>}
  ELSE IF Kind[a[1]] = "manual" THEN {<<3, 6>>}
  ELSE {<<1, 3>>}

\* Every take has one close, every close one take, and they nest; a program ends
\* with the close of its outermost take.
Nested(p, e) ==
  /\ Len(p) \in 1..12
  /\ \A t, k : <<t, k>> \in e =>
       /\ t \in 1..Len(p) /\ k \in 1..Len(p) /\ t < k
       /\ p[t][1] = "take" /\ p[k][1] = "close"
  /\ \A t, k, u, l : <<t, k>> \in e /\ <<u, l>> \in e =>
       /\ t = u <=> k = l
       /\ t < u => l < k \/ k < u
  /\ \A i \in 1..Len(p) : p[i][1] = "take" => \E k : <<i, k>> \in e
  /\ \A i \in 1..Len(p) : p[i][1] = "close" => \E t : <<t, i>> \in e
  /\ \E t : <<t, Len(p)>> \in e

\* Every take has a list of locks, none of which an enclosing take has.
TakesLists(p, e) ==
  /\ \A i \in 1..Len(p) : p[i][1] = "take" => Listing(p[i][2])
  /\ \A t, k, u, l : <<t, k>> \in e /\ <<u, l>> \in e /\ t < u /\ u < k =>
       NameSet(p[t][2]) \cap NameSet(p[u][2]) = {}

\* What an actor's stage must hold: a job pipeline_refresh, and whoever touches
\* the photos of a shard the lock of that shard.
StageLocks(a, c) ==
  (IF a[2] = 0 THEN {PIPELINE} ELSE {})
    \cup (IF c THEN {WorkerLocks[i] : i \in ShardsOf(a)} ELSE {})

\* Stages and waits are inside a take; workers are spawned once, in a cluster;
\* a job asks for pipeline_refresh first of all, the manual refresh after its own.
Guarded(a, c, p, e) ==
  /\ \A i \in 1..Len(p) : p[i][1] = "work" /\ (a[2] = 0 \/ c) =>
       \E t, k : <<t, k>> \in e /\ t < i /\ i < k /\ StageLocks(a, c) \subseteq NameSet(p[t][2])
  /\ \A i \in 1..Len(p) : p[i][1] = "join" => \E t, k : <<t, k>> \in e /\ t < i /\ i < k
  /\ \A i \in 1..Len(p) : p[i][1] = "spawn" =>
       a[2] = 0 /\ c /\ \A m \in 1..Len(p) : p[m][1] = "spawn" => m = i
  /\ \A t, k : <<t, k>> \in e /\ a[2] = 0 =>
       \/ p[t][2][1] = PIPELINE
       \/ p[t][2][1] = "lot_manual_refresh" /\ Len(p[t][2]) >= 2 /\ p[t][2][2] = PIPELINE
       \/ \E u, l : <<u, l>> \in e /\ u < t /\ t < l /\ PIPELINE \in NameSet(p[u][2])
  /\ \A t, k : <<t, k>> \in e /\ a[2] # 0 => PIPELINE \notin NameSet(p[t][2])
  /\ \A t, k : \A i \in 1..Len(p[t][2]) :
       <<t, k>> \in e /\ p[t][2][i] = "lot_manual_refresh" =>
         i = 1 /\ \A u, l : <<u, l>> \in e => u = t

Shape(a, c, p, e) == Nested(p, e) /\ TakesLists(p, e) /\ Guarded(a, c, p, e)

\* The steps programs are made of.
Stages == {"ingest", "prune", "photo", "cleanup", "upsert"}
Plains == {"find", "look", "spawn", "join", "close"}
JobSteps == {Take(l) : l \in Seq(LockName)} \cup {Work(x) : x \in Stages}
           \cup {Plain(x) : x \in Plains}

\* The length of a sequence, in the form the provers can use.
Size(p, n) == Len(p) >= n /\ Len(p) <= n

\* Two sequences one after the other.
LEMMA Cat ==
  ASSUME NEW S, NEW p \in Seq(S), NEW q \in Seq(S)
  PROVE  /\ p \o q \in Seq(S) /\ Len(p \o q) = Len(p) + Len(q)
         /\ \A i \in 1..Len(p) : (p \o q)[i] = p[i]
         /\ \A i \in 1..Len(q) : (p \o q)[Len(p) + i] = q[i]
BY SMT

\* A list of shards' locks is in order, and names none of the other locks.
LEMMA PhotoLocksIs ==
  ASSUME NEW c \in BOOLEAN
  PROVE  /\ Listing(PhotoLocks(c))
         /\ c => PhotoLocks(c) = WorkerLocks
         /\ \A i \in 1..Len(PhotoLocks(c)) :
              PhotoLocks(c)[i] \notin {PIPELINE, CSV, GATE, "retention_cleanup", "lot_manual_refresh"}
<1>1. CASE c
  <2>1. PhotoLocks(c) = WorkerLocks
    BY <1>1 DEF PhotoLocks
  <2>2. WorkerLocks \in Seq(LockName) /\ Len(WorkerLocks) >= 1
    BY WorkerAssumption DEF LockName, Shards
  <2>3. QED
    BY <2>1, <2>2, WorkerAssumption DEF Listing, OtherLocks
<1>2. CASE ~c
  <2>1. PhotoLocks(c) = <<"photo_sync">>
    BY <1>2 DEF PhotoLocks
  <2>2. "photo_sync" \in LockName
    BY DEF LockName, OtherLocks
  <2>3. <<"photo_sync">> \in Seq(LockName) /\ Len(<<"photo_sync">>) = 1 /\ <<"photo_sync">>[1] = "photo_sync"
    BY <2>2
  <2>4. QED
    BY <1>2, <2>1, <2>3 DEF Listing, PIPELINE, CSV, GATE
<1>3. QED
  BY <1>1, <1>2

\* The locks of the manual refresh.
LEMMA GuardNamesIs ==
  ASSUME NEW c \in BOOLEAN
  PROVE  /\ Listing(GuardNames(c)) /\ Len(GuardNames(c)) >= 4
         /\ GuardNames(c)[1] = "lot_manual_refresh" /\ GuardNames(c)[2] = PIPELINE
         /\ NameSet(PhotoLocks(c)) \subseteq NameSet(GuardNames(c))
<1> DEFINE first == <<"lot_manual_refresh", PIPELINE, CSV, GATE>>
           rest == PhotoLocks(c)
           all == first \o rest
<1>1. {"lot_manual_refresh", PIPELINE, CSV, GATE} \subseteq LockName
  BY DEF LockName, OtherLocks
<1>2. /\ first \in Seq(LockName) /\ Len(first) = 4
      /\ first[1] = "lot_manual_refresh" /\ first[2] = PIPELINE /\ first[3] = CSV /\ first[4] = GATE
  BY <1>1
<1>3. rest \in Seq(LockName) /\ Len(rest) \in Nat /\ Len(rest) >= 1
  BY PhotoLocksIs DEF Listing
<1>a. Listing(rest) /\ \A i \in 1..Len(rest) :
        rest[i] \notin {PIPELINE, CSV, GATE, "retention_cleanup", "lot_manual_refresh"}
  BY PhotoLocksIs
<1>b. GuardNames(c) = all
  BY DEF GuardNames
<1>c. NameSet(PhotoLocks(c)) = NameSet(rest)
  OBVIOUS
<1> HIDE DEF first, rest
<1>4. /\ all \in Seq(LockName) /\ Len(all) = 4 + Len(rest)
      /\ \A i \in 1..4 : all[i] = first[i]
      /\ \A i \in 1..Len(rest) : all[4 + i] = rest[i]
  <2>1. /\ first \o rest \in Seq(LockName) /\ Len(first \o rest) = Len(first) + Len(rest)
        /\ \A i \in 1..Len(first) : (first \o rest)[i] = first[i]
        /\ \A i \in 1..Len(rest) : (first \o rest)[Len(first) + i] = rest[i]
    <3> HIDE DEF all
    <3>1. first \in Seq(LockName) /\ rest \in Seq(LockName)
      BY <1>2, <1>3
    <3>2. QED
      BY <3>1, Cat
  <2>2. all = first \o rest /\ Len(first) = 4
    BY <1>2
  <2> HIDE DEF all
  <2>3. QED
    BY <2>1, <2>2
<1> HIDE DEF all
<1>6. ASSUME NEW i \in 1..Len(all), NEW j \in 1..Len(all), all[i] = all[j]
      PROVE  i = j
  <2>1. ASSUME NEW k \in 1..Len(all)
        PROVE  \/ k = 1 /\ all[k] = "lot_manual_refresh"
               \/ k = 2 /\ all[k] = PIPELINE
               \/ k = 3 /\ all[k] = CSV
               \/ k = 4 /\ all[k] = GATE
               \/ k - 4 \in 1..Len(rest) /\ all[k] = rest[k - 4]
    <3>1. k \in 1..4 \/ k - 4 \in 1..Len(rest)
      BY <1>3, <1>4
    <3>2. CASE k \in 1..4
      BY <1>2, <1>4, <3>2
    <3>3. CASE k - 4 \in 1..Len(rest)
      <4>1. all[4 + (k - 4)] = rest[k - 4]
        BY <1>4, <3>3
      <4>2. 4 + (k - 4) = k
        OBVIOUS
      <4>3. QED
        BY <3>3, <4>1, <4>2
    <3>4. QED
      BY <3>1, <3>2, <3>3
  <2>2. CASE i - 4 \in 1..Len(rest) /\ j - 4 \in 1..Len(rest)
                /\ all[i] = rest[i - 4] /\ all[j] = rest[j - 4]
    <3>1. i - 4 = j - 4
      BY <1>6, <2>2, <1>a DEF Listing
    <3>2. QED
      BY <3>1
  <2>3. QED
    BY <1>6, <2>1, <2>2, <1>a DEF PIPELINE, CSV, GATE
<1>7. NameSet(rest) \subseteq NameSet(all)
  <2> SUFFICES ASSUME NEW i \in 1..Len(rest)
               PROVE  rest[i] \in NameSet(all)
    BY DEF NameSet
  <2>1. all[4 + i] = rest[i] /\ 4 + i \in 1..Len(all)
    BY <1>3, <1>4
  <2>2. QED
    BY <2>1 DEF NameSet
<1>8. QED
  BY <1>2, <1>3, <1>4, <1>b, <1>c, <1>6, <1>7 DEF Listing

\* The locks of a cluster or of one photo sync.
LEMMA PhotoNamesIs ==
  ASSUME NEW c \in BOOLEAN, NEW skip \in BOOLEAN
  PROVE  /\ Listing(PhotoNames(c, skip))
         /\ ~skip => PhotoNames(c, skip)[1] = PIPELINE
         /\ NameSet(PhotoNames(c, skip)) \subseteq {PIPELINE, GATE, "photo_sync"}
         /\ skip => PIPELINE \notin NameSet(PhotoNames(c, skip))
<1> DEFINE head == IF skip THEN << >> ELSE <<PIPELINE>>
           tail == IF c THEN << >> ELSE PhotoLocks(c)
           all == head \o <<GATE>> \o tail
<1>1. {PIPELINE, GATE, "photo_sync"} \subseteq LockName
  BY DEF LockName, OtherLocks
<1>2. /\ head \in Seq(LockName) /\ <<GATE>> \in Seq(LockName)
      /\ Len(<<GATE>>) = 1 /\ <<GATE>>[1] = GATE
      /\ skip => Len(head) = 0
      /\ ~skip => Len(head) = 1 /\ head[1] = PIPELINE
  BY <1>1
<1>3. /\ tail \in Seq(LockName)
      /\ c => Len(tail) = 0
      /\ ~c => Len(tail) = 1 /\ tail[1] = "photo_sync"
  BY <1>1 DEF PhotoLocks
<1> HIDE DEF head, tail
<1>4. /\ head \o <<GATE>> \in Seq(LockName)
      /\ Len(head \o <<GATE>>) = Len(head) + 1
      /\ (head \o <<GATE>>)[Len(head) + 1] = GATE
      /\ ~skip => (head \o <<GATE>>)[1] = PIPELINE
  BY <1>2, Cat
<1>5. /\ all \in Seq(LockName) /\ Len(all) = Len(head) + 1 + Len(tail)
      /\ all[Len(head) + 1] = GATE
      /\ ~skip => all[1] = PIPELINE
      /\ ~c => all[Len(head) + 2] = "photo_sync"
  BY <1>2, <1>3, <1>4, Cat
<1>6. PhotoNames(c, skip) = all
  BY DEF PhotoNames, head, tail
<1> HIDE DEF all
<1>7. ASSUME NEW i \in 1..Len(all)
      PROVE  \/ i = 1 /\ all[i] = PIPELINE /\ ~skip
             \/ i = Len(head) + 1 /\ all[i] = GATE
             \/ i = Len(head) + 2 /\ all[i] = "photo_sync"
  <2>1. CASE skip /\ c
    <3>1. Len(all) = 1 /\ Len(head) = 0
      BY <1>2, <1>3, <1>5, <2>1
    <3>2. i = 1
      BY <3>1
    <3>3. QED
      BY <1>5, <3>1, <3>2
  <2>2. CASE skip /\ ~c
    <3>1. Len(all) = 2 /\ Len(head) = 0
      BY <1>2, <1>3, <1>5, <2>2
    <3>2. i = 1 \/ i = 2
      BY <3>1
    <3>3. QED
      BY <1>5, <2>2, <3>1, <3>2
  <2>3. CASE ~skip /\ c
    <3>0. Len(head) = 1 /\ Len(tail) = 0 /\ Len(all) = Len(head) + 1 + Len(tail)
      BY <1>2, <1>3, <1>5, <2>3
    <3>1. Len(all) = 2 /\ Len(head) = 1
      BY <3>0
    <3>2. i = 1 \/ i = 2
      BY <3>1
    <3>3. QED
      BY <1>5, <2>3, <3>1, <3>2
  <2>4. CASE ~skip /\ ~c
    <3>0. Len(head) = 1 /\ Len(tail) = 1 /\ Len(all) = Len(head) + 1 + Len(tail)
      BY <1>2, <1>3, <1>5, <2>4
    <3>1. Len(all) = 3 /\ Len(head) = 1
      BY <3>0
    <3>2. i = 1 \/ i = 2 \/ i = 3
      BY <3>1
    <3>3. QED
      BY <1>5, <2>4, <3>1, <3>2
  <2>5. QED
    BY <2>1, <2>2, <2>3, <2>4
<1>8. Listing(all)
  <2>1. Len(all) >= 1
    BY <1>2, <1>3, <1>5
  <2>2. ASSUME NEW i \in 1..Len(all), NEW j \in 1..Len(all), all[i] = all[j]
        PROVE  i = j
    BY <1>7, <2>2 DEF PIPELINE, GATE
  <2>3. QED
    BY <1>5, <2>1, <2>2 DEF Listing
<1>9. /\ NameSet(all) \subseteq {PIPELINE, GATE, "photo_sync"}
      /\ skip => PIPELINE \notin NameSet(all)
  BY <1>7 DEF NameSet, PIPELINE, GATE
<1>10. QED
  BY <1>5, <1>6, <1>8, <1>9

\* The steps used are steps.
LEMMA StepsAre ==
  /\ \A l \in Seq(LockName) : Take(l) \in JobSteps
  /\ Work("ingest") \in JobSteps /\ Work("prune") \in JobSteps /\ Work("photo") \in JobSteps
  /\ Plain("spawn") \in JobSteps /\ Plain("join") \in JobSteps /\ Close \in JobSteps
<1>1. \A l \in Seq(LockName) : Take(l) \in JobSteps
  BY DEF JobSteps
<1>2. (\A x \in Stages : Work(x) \in JobSteps) /\ (\A x \in Plains : Plain(x) \in JobSteps)
  BY DEF JobSteps
<1>3. QED
  BY Zenon, <1>1, <1>2 DEF Close, Stages, Plains

\* The fixed lists of locks.
LEMMA FixedLists ==
  /\ Listing(<<PIPELINE>>) /\ NameSet(<<PIPELINE>>) = {PIPELINE}
  /\ Listing(<<CSV>>) /\ NameSet(<<CSV>>) = {CSV}
  /\ Listing(<<GATE>>) /\ NameSet(<<GATE>>) = {GATE}
  /\ Listing(<<PIPELINE, CSV>>) /\ NameSet(<<PIPELINE, CSV>>) = {PIPELINE, CSV}
  /\ Listing(RetentionNames) /\ NameSet(RetentionNames) = {PIPELINE, GATE, "retention_cleanup"}
  /\ <<PIPELINE>>[1] = PIPELINE /\ <<PIPELINE, CSV>>[1] = PIPELINE /\ RetentionNames[1] = PIPELINE
<1>1. /\ PIPELINE \in LockName /\ CSV \in LockName /\ GATE \in LockName
      /\ "retention_cleanup" \in LockName
  BY DEF LockName, OtherLocks
<1>2. Listing(<<PIPELINE>>) /\ Listing(<<CSV>>) /\ Listing(<<GATE>>)
  BY <1>1 DEF Listing
<1>3. Listing(<<PIPELINE, CSV>>)
  BY <1>1 DEF Listing, PIPELINE, CSV
<1>4. Listing(RetentionNames)
  BY <1>1 DEF Listing, RetentionNames, PIPELINE, GATE
<1>5. \A n : NameSet(<<n>>) = {n}
  BY DEF NameSet
<1>8. NameSet(<<PIPELINE, CSV>>) = {PIPELINE, CSV}
  BY DEF NameSet
<1>6. /\ NameSet(RetentionNames) = {PIPELINE, GATE, "retention_cleanup"}
      /\ RetentionNames[1] = PIPELINE
  BY DEF NameSet, RetentionNames
<1>7. QED
  BY <1>2, <1>3, <1>4, <1>5, <1>6, <1>8

\* The ingest and its prune.
LEMMA IngestIs ==
  /\ Ingest \in Seq(JobSteps) /\ Size(Ingest, 4)
  /\ Ingest[1] = Work("ingest") /\ Ingest[2] = Take(<<GATE>>)
  /\ Ingest[3] = Work("prune") /\ Ingest[4] = Close
<1> DEFINE gate == Take(<<GATE>>)
           ingest == Work("ingest")
           prune == Work("prune")
           close == Close
<1>1. gate \in JobSteps /\ ingest \in JobSteps /\ prune \in JobSteps /\ close \in JobSteps
  BY FixedLists, StepsAre DEF Listing
<1>2. Ingest = <<ingest, gate, prune, close>>
  BY DEF Ingest
<1> HIDE DEF gate, ingest, prune, close
<1>3. /\ <<ingest, gate, prune, close>> \in Seq(JobSteps)
      /\ Size(<<ingest, gate, prune, close>>, 4)
  BY <1>1 DEF Size
<1>4. Ingest[1] = ingest /\ Ingest[2] = gate /\ Ingest[3] = prune /\ Ingest[4] = close
  BY <1>2
<1>5. QED
  BY <1>2, <1>3, <1>4 DEF ingest, gate, prune, close

\* The photo part of a job.
LEMMA PhotoIs ==
  ASSUME NEW c \in BOOLEAN, NEW skip \in BOOLEAN
  PROVE  /\ Photo(c, skip) \in Seq(JobSteps)
         /\ Photo(c, skip)[1] = Take(PhotoNames(c, skip))
         /\ c => /\ Size(Photo(c, skip), 4)
                 /\ Photo(c, skip)[2] = Plain("spawn") /\ Photo(c, skip)[3] = Plain("join")
                 /\ Photo(c, skip)[4] = Close
         /\ ~c => /\ Size(Photo(c, skip), 3)
                  /\ Photo(c, skip)[2] = Work("photo") /\ Photo(c, skip)[3] = Close
<1> DEFINE take == Take(PhotoNames(c, skip))
           spawn == Plain("spawn")
           join == Plain("join")
           work == Work("photo")
           close == Close
<1>1. /\ take \in JobSteps /\ spawn \in JobSteps /\ join \in JobSteps /\ work \in JobSteps
      /\ close \in JobSteps
  BY StepsAre, PhotoNamesIs DEF Listing
<1>2. c => Photo(c, skip) = <<take>> \o <<spawn, join>> \o <<close>>
  BY DEF Photo
<1>3. ~c => Photo(c, skip) = <<take>> \o <<work>> \o <<close>>
  BY DEF Photo
<1> HIDE DEF take, spawn, join, work, close
<1>4. CASE c
  <2> DEFINE y == <<take>> \o <<spawn, join>>
             p == y \o <<close>>
  <2>1. y \in Seq(JobSteps) /\ Size(y, 3) /\ y[1] = take /\ y[2] = spawn /\ y[3] = join
    BY <1>1 DEF Size
  <2>2. <<close>> \in Seq(JobSteps) /\ Size(<<close>>, 1) /\ <<close>>[1] = close
    BY <1>1 DEF Size
  <2>3. /\ p \in Seq(JobSteps) /\ Size(p, 4)
        /\ p[1] = take /\ p[2] = spawn /\ p[3] = join /\ p[4] = close
    <3> HIDE DEF y
    <3>1. QED
      BY <2>1, <2>2 DEF Size
  <2>4. QED
    BY <1>2, <1>4, <2>3 DEF take, spawn, join, close
<1>5. CASE ~c
  <2> DEFINE y == <<take>> \o <<work>>
             p == y \o <<close>>
  <2>1. y \in Seq(JobSteps) /\ Size(y, 2) /\ y[1] = take /\ y[2] = work
    BY <1>1 DEF Size
  <2>2. <<close>> \in Seq(JobSteps) /\ Size(<<close>>, 1) /\ <<close>>[1] = close
    BY <1>1 DEF Size
  <2>3. /\ p \in Seq(JobSteps) /\ Size(p, 3)
        /\ p[1] = take /\ p[2] = work /\ p[3] = close
    <3> HIDE DEF y
    <3>1. QED
      BY <2>1, <2>2 DEF Size
  <2>4. QED
    BY <1>3, <1>5, <2>3 DEF take, work, close
<1>6. QED
  BY <1>4, <1>5

\* The program of the pipeline.
LEMMA PipelineIs ==
  ASSUME NEW c \in BOOLEAN, NEW j \in Job, Kind[j] = "pipeline", NEW p, p = JobProgram(j, c)
  PROVE  /\ p \in Seq(JobSteps)
         /\ p[1] = Take(<<PIPELINE>>) /\ p[2] = Take(<<CSV>>) /\ p[3] = Work("ingest")
         /\ p[4] = Take(<<GATE>>) /\ p[5] = Work("prune") /\ p[6] = Close /\ p[7] = Close
         /\ p[8] = Take(PhotoNames(c, TRUE))
         /\ c => /\ Size(p, 12) /\ p[9] = Plain("spawn") /\ p[10] = Plain("join")
                 /\ p[11] = Close /\ p[12] = Close
         /\ ~c => /\ Size(p, 11) /\ p[9] = Work("photo") /\ p[10] = Close /\ p[11] = Close
<1> DEFINE x == <<Take(<<PIPELINE>>), Take(<<CSV>>)>>
           y == Ingest
           z == <<Close>>
           w == Photo(c, TRUE)
           xy == x \o y
           xyz == xy \o z
           xyzw == xyz \o w
<1>1. p = xyzw \o z
  BY Zenon DEF JobProgram
<1>2. x \in Seq(JobSteps) /\ Size(x, 2) /\ x[1] = Take(<<PIPELINE>>) /\ x[2] = Take(<<CSV>>)
  <2>1. Take(<<PIPELINE>>) \in JobSteps /\ Take(<<CSV>>) \in JobSteps
    BY FixedLists, StepsAre DEF Listing
  <2>2. QED
    BY <2>1 DEF Size
<1>3. z \in Seq(JobSteps) /\ Size(z, 1) /\ z[1] = Close
  BY StepsAre DEF Size
<1>4. /\ y \in Seq(JobSteps) /\ Size(y, 4) /\ y[1] = Work("ingest") /\ y[2] = Take(<<GATE>>)
      /\ y[3] = Work("prune") /\ y[4] = Close
  BY IngestIs
<1>5. /\ w \in Seq(JobSteps) /\ w[1] = Take(PhotoNames(c, TRUE))
      /\ c => Size(w, 4) /\ w[2] = Plain("spawn") /\ w[3] = Plain("join") /\ w[4] = Close
      /\ ~c => Size(w, 3) /\ w[2] = Work("photo") /\ w[3] = Close
  BY PhotoIs
<1> HIDE DEF x, y, z, w
<1>6. /\ xy \in Seq(JobSteps) /\ Size(xy, 6)
      /\ xy[1] = x[1] /\ xy[2] = x[2] /\ xy[3] = y[1] /\ xy[4] = y[2] /\ xy[5] = y[3]
      /\ xy[6] = y[4]
  BY <1>2, <1>4 DEF Size
<1> HIDE DEF xy
<1>7. /\ xyz \in Seq(JobSteps) /\ Size(xyz, 7)
      /\ xyz[1] = xy[1] /\ xyz[2] = xy[2] /\ xyz[3] = xy[3] /\ xyz[4] = xy[4]
      /\ xyz[5] = xy[5] /\ xyz[6] = xy[6] /\ xyz[7] = Close
  BY <1>3, <1>6 DEF Size
<1> HIDE DEF xyz
<1>a. CASE c
  <2>1. w \in Seq(JobSteps) /\ Size(w, 4)
    BY <1>5, <1>a
  <2>2. xyzw \in Seq(JobSteps) /\ Size(xyzw, 11)
    BY <1>7, <2>1 DEF Size
  <2>3. /\ xyzw[1] = xyz[1] /\ xyzw[2] = xyz[2] /\ xyzw[3] = xyz[3] /\ xyzw[4] = xyz[4]
        /\ xyzw[5] = xyz[5] /\ xyzw[6] = xyz[6] /\ xyzw[7] = xyz[7]
    BY <1>7, <2>1 DEF Size
  <2>4. xyzw[8] = w[1] /\ xyzw[9] = w[2] /\ xyzw[10] = w[3] /\ xyzw[11] = w[4]
    BY <1>7, <2>1 DEF Size
  <2> HIDE DEF xyzw
  <2>5. Size(p, 12) /\ p[12] = Close
    BY <1>1, <1>3, <2>2 DEF Size
  <2>6. /\ p[1] = xyzw[1] /\ p[2] = xyzw[2] /\ p[3] = xyzw[3] /\ p[4] = xyzw[4]
        /\ p[5] = xyzw[5] /\ p[6] = xyzw[6] /\ p[7] = xyzw[7]
    BY <1>1, <1>3, <2>2 DEF Size
  <2>7. p[8] = xyzw[8] /\ p[9] = xyzw[9] /\ p[10] = xyzw[10] /\ p[11] = xyzw[11]
    BY <1>1, <1>3, <2>2 DEF Size
  <2>9. p \in Seq(JobSteps)
    BY <1>1, <1>3, <2>2
  <2>10. QED
    BY ZenonT(60), <1>2, <1>4, <1>5, <1>6, <1>7, <1>a, <2>3, <2>4, <2>5, <2>6, <2>7, <2>9
<1>b. CASE ~c
  <2>1. w \in Seq(JobSteps) /\ Size(w, 3)
    BY <1>5, <1>b
  <2>2. xyzw \in Seq(JobSteps) /\ Size(xyzw, 10)
    BY <1>7, <2>1 DEF Size
  <2>3. /\ xyzw[1] = xyz[1] /\ xyzw[2] = xyz[2] /\ xyzw[3] = xyz[3] /\ xyzw[4] = xyz[4]
        /\ xyzw[5] = xyz[5] /\ xyzw[6] = xyz[6] /\ xyzw[7] = xyz[7]
    BY <1>7, <2>1 DEF Size
  <2>4. xyzw[8] = w[1] /\ xyzw[9] = w[2] /\ xyzw[10] = w[3]
    BY <1>7, <2>1 DEF Size
  <2> HIDE DEF xyzw
  <2>5. Size(p, 11) /\ p[11] = Close
    BY <1>1, <1>3, <2>2 DEF Size
  <2>6. /\ p[1] = xyzw[1] /\ p[2] = xyzw[2] /\ p[3] = xyzw[3] /\ p[4] = xyzw[4]
        /\ p[5] = xyzw[5] /\ p[6] = xyzw[6] /\ p[7] = xyzw[7]
    BY <1>1, <1>3, <2>2 DEF Size
  <2>7. p[8] = xyzw[8] /\ p[9] = xyzw[9] /\ p[10] = xyzw[10]
    BY <1>1, <1>3, <2>2 DEF Size
  <2>9. p \in Seq(JobSteps)
    BY <1>1, <1>3, <2>2
  <2>10. QED
    BY <1>2, <1>4, <1>5, <1>6, <1>7, <1>b, <2>3, <2>4, <2>5, <2>6, <2>7, <2>9
<1>10. QED
  BY <1>a, <1>b

\* The program of ingest:csv.
LEMMA IngestJobIs ==
  ASSUME NEW c \in BOOLEAN, NEW j \in Job, Kind[j] = "ingest", NEW p, p = JobProgram(j, c)
  PROVE  /\ p \in Seq(JobSteps) /\ Size(p, 6) /\ p[1] = Take(<<PIPELINE, CSV>>) /\ p[2] = Work("ingest")
         /\ p[3] = Take(<<GATE>>) /\ p[4] = Work("prune") /\ p[5] = Close /\ p[6] = Close
<1> DEFINE x == <<Take(<<PIPELINE, CSV>>)>>
           y == Ingest
           z == <<Close>>
           xy == x \o y
<1>1. p = xy \o z
  BY Zenon DEF JobProgram
<1>2. x \in Seq(JobSteps) /\ Size(x, 1) /\ x[1] = Take(<<PIPELINE, CSV>>)
  <2>1. Take(<<PIPELINE, CSV>>) \in JobSteps
    BY FixedLists, StepsAre DEF Listing
  <2>2. QED
    BY <2>1 DEF Size
<1>3. z \in Seq(JobSteps) /\ Size(z, 1) /\ z[1] = Close
  BY StepsAre DEF Size
<1>4. /\ y \in Seq(JobSteps) /\ Size(y, 4) /\ y[1] = Work("ingest") /\ y[2] = Take(<<GATE>>)
      /\ y[3] = Work("prune") /\ y[4] = Close
  BY IngestIs
<1> HIDE DEF x, y, z
<1>5. /\ xy \in Seq(JobSteps) /\ Size(xy, 5)
      /\ xy[1] = x[1] /\ xy[2] = y[1] /\ xy[3] = y[2] /\ xy[4] = y[3] /\ xy[5] = y[4]
  BY <1>2, <1>4 DEF Size
<1> HIDE DEF xy
<1>6. /\ Size(p, 6) /\ p[1] = xy[1] /\ p[2] = xy[2] /\ p[3] = xy[3] /\ p[4] = xy[4]
      /\ p[5] = xy[5] /\ p[6] = Close
  BY <1>1, <1>3, <1>5 DEF Size
<1>7. p \in Seq(JobSteps)
  BY <1>1, <1>3, <1>5
<1>8. QED
  BY <1>2, <1>4, <1>5, <1>6, <1>7

\* The programs of the other jobs.
LEMMA OtherJobsAre ==
  ASSUME NEW c \in BOOLEAN, NEW j \in Job, NEW p, p = JobProgram(j, c)
  PROVE  /\ Kind[j] = "retry" => p = Photo(c, FALSE)
         /\ Kind[j] = "sync" => p = <<Take(<<PIPELINE, GATE, PhotoLocks(c)[1]>>),
                                       Work("photo"), Close>>
         /\ Kind[j] = "retention" => p = <<Take(RetentionNames), Work("cleanup"), Close>>
         /\ Kind[j] = "manual" => p = <<Plain("find"), Plain("look"), Take(GuardNames(c)),
                                         Work("upsert"), Work("photo"), Close>>
BY Zenon DEF JobProgram

\* The elements of a list are its names.
LEMMA Named ==
  ASSUME NEW l, NEW i \in 1..Len(l)
  PROVE  l[i] \in NameSet(l)
BY DEF NameSet

\* A listing has a first name.
LEMMA ListingFacts ==
  ASSUME NEW l, Listing(l)
  PROVE  Len(l) \in Nat /\ Len(l) >= 1 /\ 1 \in 1..Len(l) /\ l[1] \in NameSet(l)
<1>1. l \in Seq(LockName) /\ Len(l) >= 1
  BY Zenon DEF Listing
<1>2. Len(l) \in Nat /\ 1 \in 1..Len(l)
  BY <1>1
<1>3. QED
  BY <1>1, <1>2, Named

\* A program with one take, closed at its end, is in order.
LEMMA OneTake ==
  ASSUME NEW p, NEW e, NEW t, NEW n \in 1..12, Len(p) = n, e = {<<t, n>>},
         t \in 1..n, t < n, p[t][1] = "take", p[n][1] = "close", Listing(p[t][2]),
         \A i \in 1..n : (p[i][1] = "take" => i = t) /\ (p[i][1] = "close" => i = n)
  PROVE  Nested(p, e) /\ TakesLists(p, e)
<1>1. \A u, k : <<u, k>> \in e <=> u = t /\ k = n
  OBVIOUS
<1>2. Nested(p, e)
  BY <1>1 DEF Nested
<1>3. TakesLists(p, e)
  BY <1>1 DEF TakesLists
<1>4. QED
  BY <1>2, <1>3

\* The takes of the pipeline nest: the ingest with its prune, then the photos.
LEMMA PipelineNests ==
  ASSUME NEW p, NEW e, NEW n \in 11..12, Len(p) = n,
         e = {<<1, n>>, <<2, 7>>, <<4, 6>>, <<8, n - 1>>},
         p[1][1] = "take" /\ p[2][1] = "take" /\ p[3][1] = "work" /\ p[4][1] = "take",
         p[5][1] = "work" /\ p[6][1] = "close" /\ p[7][1] = "close" /\ p[8][1] = "take",
         p[n - 1][1] = "close" /\ p[n][1] = "close",
         \A i \in 9..(n - 2) : p[i][1] \notin {"take", "close"}
  PROVE  Nested(p, e)
<1>1. \A t, k : <<t, k>> \in e <=> \/ t = 1 /\ k = n
                                   \/ t = 2 /\ k = 7
                                   \/ t = 4 /\ k = 6
                                   \/ t = 8 /\ k = n - 1
  OBVIOUS
<1>2. \A t, k : <<t, k>> \in e =>
        /\ t \in 1..n /\ k \in 1..n /\ t < k
        /\ p[t][1] = "take" /\ p[k][1] = "close"
  BY <1>1
<1>3. \A t, k, u, l : <<t, k>> \in e /\ <<u, l>> \in e =>
        /\ t = u <=> k = l
        /\ t < u => l < k \/ k < u
  BY <1>1
<1>4. \A i \in 1..n : /\ p[i][1] = "take" => i \in {1, 2, 4, 8}
                      /\ p[i][1] = "close" => i \in {6, 7, n - 1, n}
  <2> TAKE i \in 1..n
  <2>1. \/ i = 1 \/ i = 2 \/ i = 3 \/ i = 4 \/ i = 5 \/ i = 6 \/ i = 7 \/ i = 8
        \/ i \in 9..(n - 2) \/ i = n - 1 \/ i = n
    OBVIOUS
  <2>2. QED
    BY <2>1
<1>5. \A i \in 1..n : p[i][1] = "take" => \E k : <<i, k>> \in e
  BY <1>1, <1>4
<1>6. \A i \in 1..n : p[i][1] = "close" => \E t : <<t, i>> \in e
  BY <1>1, <1>4
<1>7. \E t : <<t, n>> \in e
  BY <1>1
<1>8. QED
  BY <1>2, <1>3, <1>5, <1>6, <1>7 DEF Nested

\* The program of the pipeline has its shape.
LEMMA PipelineShape ==
  ASSUME NEW c \in BOOLEAN, NEW j \in Job, Kind[j] = "pipeline",
         NEW p, p = JobProgram(j, c), Len(p) \in Nat, NEW e, e = Ends(<<j, 0>>, c)
  PROVE  Shape(<<j, 0>>, c, p, e)
<1> DEFINE a == <<j, 0>>
           l == PhotoNames(c, TRUE)
           n == IF c THEN 12 ELSE 11
<1>1. /\ p[1] = Take(<<PIPELINE>>) /\ p[2] = Take(<<CSV>>) /\ p[3] = Work("ingest")
      /\ p[4] = Take(<<GATE>>) /\ p[5] = Work("prune") /\ p[6] = Close /\ p[7] = Close
      /\ p[8] = Take(l)
      /\ c => /\ Size(p, 12) /\ p[9] = Plain("spawn") /\ p[10] = Plain("join")
              /\ p[11] = Close /\ p[12] = Close
      /\ ~c => /\ Size(p, 11) /\ p[9] = Work("photo") /\ p[10] = Close /\ p[11] = Close
  BY ZenonT(60), PipelineIs
<1>2. Len(p) = n
  <2>1. CASE c
    <3>1. Size(p, 12)
      BY <1>1, <2>1
    <3>2. n = 12
      BY <2>1
    <3> HIDE DEF n
    <3>3. PICK k \in Nat : k = Len(p)
      OBVIOUS
    <3>4. k <= n /\ n <= k
      BY <3>1, <3>2, <3>3 DEF Size
    <3>5. k = n
      BY <3>2, <3>4
    <3>6. QED
      BY <3>3, <3>5
  <2>2. CASE ~c
    <3>1. Size(p, 11)
      BY <1>1, <2>2
    <3>2. n = 11
      BY <2>2
    <3> HIDE DEF n
    <3>3. PICK k \in Nat : k = Len(p)
      OBVIOUS
    <3>4. k <= n /\ n <= k
      BY <3>1, <3>2, <3>3 DEF Size
    <3>5. k = n
      BY <3>2, <3>4
    <3>6. QED
      BY <3>3, <3>5
  <2>3. QED
    BY <2>1, <2>2
<1>3. /\ Listing(l) /\ NameSet(l) \subseteq {GATE, "photo_sync"}
  BY PhotoNamesIs
<1>4. e = {<<1, n>>, <<2, 7>>, <<4, 6>>, <<8, n - 1>>}
  BY DEF Ends
<1>5. StageLocks(a, c) = {PIPELINE}
  BY DEF StageLocks, ShardsOf, Worker, Shards, Main
<1>6. n \in 11..12 /\ (c => n = 12) /\ (~c => n = 11)
  OBVIOUS
<1> HIDE DEF l, n
<1>7. /\ p[1][1] = "take" /\ p[2][1] = "take" /\ p[3][1] = "work" /\ p[4][1] = "take"
      /\ p[5][1] = "work" /\ p[6][1] = "close" /\ p[7][1] = "close" /\ p[8][1] = "take"
  BY <1>1 DEF Take, Work, Close, Plain
<1>8. p[1][2] = <<PIPELINE>> /\ p[2][2] = <<CSV>> /\ p[4][2] = <<GATE>> /\ p[8][2] = l
  BY <1>1 DEF Take
<1>9. /\ p[n - 1][1] = "close" /\ p[n][1] = "close"
      /\ \A i \in 9..(n - 2) : /\ i = 9 \/ i = 10
                               /\ p[i][1] \notin {"take", "close"}
                               /\ p[i][1] = "spawn" => i = 9 /\ c
  <2>1. CASE c
    <3>1. p[9][1] = "spawn" /\ p[10][1] = "join" /\ p[11][1] = "close" /\ p[12][1] = "close"
      <4>1. p[9] = Plain("spawn") /\ p[10] = Plain("join") /\ p[11] = Close /\ p[12] = Close
        BY <1>1, <2>1
      <4>2. QED
        BY <4>1 DEF Plain, Close
    <3>2. n = 12
      BY <1>6, <2>1
    <3>3. \A i \in 9..(n - 2) : i = 9 \/ i = 10
      BY <3>2
    <3>4. n - 1 = 11
      BY <3>2
    <3>5. p[n - 1][1] = "close" /\ p[n][1] = "close"
      BY <3>1, <3>2, <3>4
    <3>6. QED
      BY <2>1, <3>1, <3>3, <3>5
  <2>2. CASE ~c
    <3>1. p[9][1] = "work" /\ p[10][1] = "close" /\ p[11][1] = "close"
      BY <1>1, <2>2 DEF Plain, Close, Work
    <3>2. n = 11
      BY <1>6, <2>2
    <3>3. QED
      BY <2>2, <3>1, <3>2
  <2>3. QED
    BY <2>1, <2>2
<1>10. Nested(p, e)
  BY <1>2, <1>4, <1>6, <1>7, <1>9, PipelineNests
<1>11. \A t, k : <<t, k>> \in e <=> \/ t = 1 /\ k = n
                                    \/ t = 2 /\ k = 7
                                    \/ t = 4 /\ k = 6
                                    \/ t = 8 /\ k = n - 1
  BY <1>4
<1>a. /\ NameSet(p[1][2]) = {PIPELINE} /\ NameSet(p[2][2]) = {CSV} /\ NameSet(p[4][2]) = {GATE}
      /\ NameSet(p[8][2]) \subseteq {GATE, "photo_sync"}
  BY <1>3, <1>8, FixedLists
<1>12. TakesLists(p, e)
  <2>1. \A i \in 1..n : p[i][1] = "take" => Listing(p[i][2])
    <3>1. \A i \in 1..n : p[i][1] = "take" => i = 1 \/ i = 2 \/ i = 4 \/ i = 8
      BY <1>2, <1>10, <1>11 DEF Nested
    <3>2. QED
      BY <3>1, <1>3, <1>8, FixedLists
  <2>2. ASSUME NEW t, NEW k, NEW u, NEW m, <<t, k>> \in e, <<u, m>> \in e, t < u, u < k
        PROVE  NameSet(p[t][2]) \cap NameSet(p[u][2]) = {}
    <3>1. (t = 1 /\ k = n) \/ (t = 2 /\ k = 7) \/ (t = 4 /\ k = 6) \/ (t = 8 /\ k = n - 1)
      BY Zenon, <1>11, <2>2
    <3>2. u = 1 \/ u = 2 \/ u = 4 \/ u = 8
      BY Zenon, <1>11, <2>2
    <3>3. \/ t = 1 /\ (u = 2 \/ u = 4 \/ u = 8)
          \/ t = 2 /\ u = 4
      BY <1>6, <2>2, <3>1, <3>2
    <3>4. QED
      BY <1>a, <3>3 DEF PIPELINE, CSV, GATE
  <2>5. QED
    BY <1>2, <2>1, <2>2 DEF TakesLists
<1>13. Guarded(a, c, p, e)
  <2>1. <<1, n>> \in e /\ PIPELINE \in NameSet(p[1][2])
    BY <1>a, <1>11
  <2>a. \A i \in 2..(n - 1) : 1 < i /\ i < n
    BY <1>6
  <2>2. \A i \in 1..n : p[i][1] \in {"work", "join"} => i \in 2..(n - 1)
    BY <1>6, <1>7, <1>9
  <2>3. \A t, k : <<t, k>> \in e => t = 1 \/ (t \in 2..(n - 1) /\ t < n)
    BY <1>6, <1>11
  <2>4. p[1][2][1] = PIPELINE
    BY <1>8, FixedLists
  <2>5. \A t, k : <<t, k>> \in e => "lot_manual_refresh" \notin NameSet(p[t][2])
    <3>1. \A t, k : <<t, k>> \in e => t = 1 \/ t = 2 \/ t = 4 \/ t = 8
      BY Zenon, <1>11
    <3>2. QED
      BY <1>a, <3>1 DEF PIPELINE, CSV, GATE
  <2>6. \A i \in 1..n : p[i][1] = "spawn" => i = 9 /\ c
    <3> TAKE i \in 1..n
    <3>1. \/ i = 1 \/ i = 2 \/ i = 3 \/ i = 4 \/ i = 5 \/ i = 6 \/ i = 7 \/ i = 8
          \/ i \in 9..(n - 2) \/ i = n - 1 \/ i = n
      BY <1>6
    <3>2. QED
      BY <3>1, <1>7, <1>9
  <2>7. \A i \in 1..n : p[i][1] \in {"work", "join"} =>
          \E t, k : <<t, k>> \in e /\ t < i /\ i < k /\ StageLocks(a, c) \subseteq NameSet(p[t][2])
    <3> TAKE i \in 1..n
    <3> HAVE p[i][1] \in {"work", "join"}
    <3>1. 1 < i /\ i < n
      BY <2>2, <2>a
    <3>2. StageLocks(a, c) \subseteq NameSet(p[1][2])
      BY <1>5, <2>1
    <3>3. QED
      BY <2>1, <3>1, <3>2
  <2>8. \A t, k : <<t, k>> \in e =>
          \/ p[t][2][1] = PIPELINE
          \/ \E u, m : <<u, m>> \in e /\ u < t /\ t < m /\ PIPELINE \in NameSet(p[u][2])
    <3> TAKE t, k
    <3> HAVE <<t, k>> \in e
    <3>1. CASE t = 1
      BY <2>4, <3>1
    <3>2. CASE t \in 2..(n - 1) /\ t < n
      <4>1. 1 < t
        BY <1>6, <3>2
      <4>2. QED
        BY <2>1, <3>2, <4>1
    <3>3. QED
      BY <2>3, <3>1, <3>2
  <2>9. \A t, k : \A i \in 1..Len(p[t][2]) : <<t, k>> \in e => p[t][2][i] # "lot_manual_refresh"
    BY ZenonT(60), <2>5, Named
  <2>10. a[2] = 0
    OBVIOUS
  <2> HIDE DEF a
  <2>11. /\ \A i \in 1..Len(p) : p[i][1] = "work" /\ (a[2] = 0 \/ c) =>
               \E t, k : <<t, k>> \in e /\ t < i /\ i < k /\ StageLocks(a, c) \subseteq NameSet(p[t][2])
         /\ \A i \in 1..Len(p) : p[i][1] = "join" => \E t, k : <<t, k>> \in e /\ t < i /\ i < k
    BY <1>2, <2>7
  <2>12. \A i \in 1..Len(p) : p[i][1] = "spawn" =>
           a[2] = 0 /\ c /\ \A m \in 1..Len(p) : p[m][1] = "spawn" => m = i
    BY <1>2, <2>6, <2>10
  <2>13. QED
    BY <2>8, <2>9, <2>10, <2>11, <2>12 DEF Guarded
<1>14. QED
  BY <1>10, <1>12, <1>13 DEF Shape

\* The same for a program with one take.
LEMMA OneTakeShape ==
  ASSUME NEW a, NEW c \in BOOLEAN, NEW p, NEW e, NEW t, NEW n \in 1..12, Len(p) = n, e = {<<t, n>>},
         t \in 1..n, t < n, p[t][1] = "take", p[n][1] = "close", Listing(p[t][2]),
         \A i \in 1..n : /\ (p[i][1] = "take" => i = t)
                        /\ (p[i][1] = "close" => i = n)
                        /\ (p[i][1] \in {"work", "join"} => t < i)
                        /\ (p[i][1] = "spawn" => i = 2 /\ a[2] = 0 /\ c),
         ((\E i \in 1..n : p[i][1] = "work") /\ (a[2] = 0 \/ c))
           => StageLocks(a, c) \subseteq NameSet(p[t][2]),
         a[2] = 0 => \/ p[t][2][1] = PIPELINE
                     \/ p[t][2][1] = "lot_manual_refresh" /\ Len(p[t][2]) >= 2 /\ p[t][2][2] = PIPELINE,
         a[2] # 0 => PIPELINE \notin NameSet(p[t][2]),
         \A i \in 1..Len(p[t][2]) : p[t][2][i] = "lot_manual_refresh" => i = 1
  PROVE  Shape(a, c, p, e)
<1>1. \A u, k : <<u, k>> \in e <=> u = t /\ k = n
  OBVIOUS
<1>2. \A i \in 1..n : p[i][1] # "close" => i < n
  <2>1. \A i \in 1..n : i # n => i < n
    OBVIOUS
  <2>2. QED
    BY <2>1
<1>3. Nested(p, e) /\ TakesLists(p, e)
  BY OneTake
<1>4. Guarded(a, c, p, e)
  <2>1. \A i \in 1..n : p[i][1] = "work" /\ (a[2] = 0 \/ c) =>
          \E u, k : <<u, k>> \in e /\ u < i /\ i < k /\ StageLocks(a, c) \subseteq NameSet(p[u][2])
    <3> TAKE i \in 1..n
    <3> HAVE p[i][1] = "work" /\ (a[2] = 0 \/ c)
    <3>1. t < i /\ i < n /\ StageLocks(a, c) \subseteq NameSet(p[t][2])
      BY <1>2
    <3>2. QED
      BY <1>1, <3>1
  <2>2. \A i \in 1..n : p[i][1] = "join" => \E u, k : <<u, k>> \in e /\ u < i /\ i < k
    <3> TAKE i \in 1..n
    <3> HAVE p[i][1] = "join"
    <3>1. t < i /\ i < n
      BY <1>2
    <3>2. QED
      BY <1>1, <3>1
  <2>3. \A i \in 1..n : p[i][1] = "spawn" =>
          a[2] = 0 /\ c /\ \A m \in 1..n : p[m][1] = "spawn" => m = i
    BY SMTT(60)
  <2>4. QED
    BY <1>1, <2>1, <2>2, <2>3 DEF Guarded
<1>5. QED
  BY <1>3, <1>4 DEF Shape

\* The same for a take, a stage and a close.
LEMMA ThreeSteps ==
  ASSUME NEW a, NEW c \in BOOLEAN, NEW l, Listing(l), NEW x, NEW p, p = <<Take(l), Work(x), Close>>,
         a[2] = 0 \/ c => StageLocks(a, c) \subseteq NameSet(l),
         a[2] = 0 => l[1] = PIPELINE,
         a[2] # 0 => PIPELINE \notin NameSet(l),
         "lot_manual_refresh" \notin NameSet(l)
  PROVE  Shape(a, c, p, {<<1, 3>>})
<1>1. Len(p) = 3 /\ p[1] = Take(l) /\ p[2] = Work(x) /\ p[3] = Close
  OBVIOUS
<1>2. p[1][1] = "take" /\ p[1][2] = l /\ p[2][1] = "work" /\ p[3][1] = "close"
  BY <1>1 DEF Take, Work, Close, Plain
<1>3. \A i \in 1..3 : i = 1 \/ i = 2 \/ i = 3
  OBVIOUS
<1>4. \A i \in 1..Len(p[1][2]) : p[1][2][i] # "lot_manual_refresh"
  BY <1>2, Named
<1>5. \A i \in 1..3 : /\ p[i][1] = "take" => i = 1
                      /\ p[i][1] = "close" => i = 3
                      /\ p[i][1] \in {"work", "join"} => 1 < i
                      /\ p[i][1] = "spawn" => i = 2 /\ a[2] = 0 /\ c
  BY <1>2, <1>3
<1>6. Listing(p[1][2])
  BY <1>2
<1>7. a[2] = 0 \/ c => StageLocks(a, c) \subseteq NameSet(p[1][2])
  BY <1>2
<1>8. /\ a[2] = 0 => p[1][2][1] = PIPELINE
      /\ a[2] # 0 => PIPELINE \notin NameSet(p[1][2])
  BY <1>2
<1>9. 1 \in 1..3 /\ 1 < 3 /\ 3 \in 1..12
  OBVIOUS
<1>10. QED
  BY ZenonT(60), <1>1, <1>2, <1>4, <1>5, <1>6, <1>7, <1>8, <1>9, OneTakeShape

\* The program of ingest:csv has its shape.
LEMMA IngestShape ==
  ASSUME NEW c \in BOOLEAN, NEW j \in Job, Kind[j] = "ingest",
         NEW p, p = JobProgram(j, c), Len(p) \in Nat, NEW e, e = Ends(<<j, 0>>, c)
  PROVE  Shape(<<j, 0>>, c, p, e)
<1> DEFINE a == <<j, 0>>
<1>1. /\ Size(p, 6) /\ p[1] = Take(<<PIPELINE, CSV>>) /\ p[2] = Work("ingest")
      /\ p[3] = Take(<<GATE>>) /\ p[4] = Work("prune") /\ p[5] = Close /\ p[6] = Close
  BY IngestJobIs
<1>2. PICK n \in Nat : n = Len(p)
  OBVIOUS
<1>3. n = 6
  BY <1>1, <1>2 DEF Size
<1>4. e = {<<1, 6>>, <<3, 5>>}
  BY DEF Ends
<1>5. StageLocks(a, c) = {PIPELINE} /\ a[2] = 0
  BY DEF StageLocks, ShardsOf, Worker, Shards, Main
<1>6. /\ p[1][1] = "take" /\ p[2][1] = "work" /\ p[3][1] = "take" /\ p[4][1] = "work"
      /\ p[5][1] = "close" /\ p[6][1] = "close"
      /\ p[1][2] = <<PIPELINE, CSV>> /\ p[3][2] = <<GATE>>
  BY <1>1 DEF Take, Work, Close, Plain
<1>7. /\ NameSet(p[1][2]) = {PIPELINE, CSV} /\ NameSet(p[3][2]) = {GATE}
      /\ Listing(p[1][2]) /\ Listing(p[3][2]) /\ p[1][2][1] = PIPELINE
  BY <1>6, FixedLists
<1>8. \A t, k : <<t, k>> \in e <=> (t = 1 /\ k = 6) \/ (t = 3 /\ k = 5)
  BY <1>4
<1>9. \A i \in 1..6 : i = 1 \/ i = 2 \/ i = 3 \/ i = 4 \/ i = 5 \/ i = 6
  OBVIOUS
<1> HIDE DEF a
<1>10. Nested(p, e)
  <2>1. \A t, k : <<t, k>> \in e =>
          /\ t \in 1..6 /\ k \in 1..6 /\ t < k
          /\ p[t][1] = "take" /\ p[k][1] = "close"
    BY SMTT(60), <1>6, <1>8
  <2>2. \A t, k, u, l : <<t, k>> \in e /\ <<u, l>> \in e =>
          /\ t = u <=> k = l
          /\ t < u => l < k \/ k < u
    BY <1>8
  <2>3. \A i \in 1..6 : /\ p[i][1] = "take" => \E k : <<i, k>> \in e
                        /\ p[i][1] = "close" => \E t : <<t, i>> \in e
    BY <1>6, <1>8, <1>9
  <2>4. <<1, 6>> \in e
    BY <1>4
  <2>5. 6 \in 1..12
    OBVIOUS
  <2>6. QED
    BY <1>2, <1>3, <2>1, <2>2, <2>3, <2>4, <2>5 DEF Nested
<1>11. TakesLists(p, e)
  <2>1. \A i \in 1..6 : p[i][1] = "take" => Listing(p[i][2])
    BY <1>6, <1>7, <1>9
  <2>2. \A t, k, u, l : <<t, k>> \in e /\ <<u, l>> \in e /\ t < u /\ u < k => t = 1 /\ u = 3
    BY <1>8
  <2>3. \A t, k, u, l : <<t, k>> \in e /\ <<u, l>> \in e /\ t < u /\ u < k =>
          NameSet(p[t][2]) \cap NameSet(p[u][2]) = {}
    BY <1>7, <2>2 DEF PIPELINE, CSV, GATE
  <2>4. QED
    BY <1>2, <1>3, <2>1, <2>3 DEF TakesLists
<1>12. Guarded(a, c, p, e)
  <2>1. \A i \in 1..6 : p[i][1] = "work" => 1 < i /\ i < 6
    BY <1>6, <1>9
  <2>2. <<1, 6>> \in e /\ StageLocks(a, c) \subseteq NameSet(p[1][2])
    BY <1>5, <1>7, <1>8
  <2>3. \A i \in 1..6 : p[i][1] \notin {"join", "spawn"}
    BY <1>6, <1>9
  <2>4. \A t, k : <<t, k>> \in e =>
          \/ p[t][2][1] = PIPELINE
          \/ \E u, l : <<u, l>> \in e /\ u < t /\ t < l /\ PIPELINE \in NameSet(p[u][2])
    <3> TAKE t, k
    <3> HAVE <<t, k>> \in e
    <3>1. t = 1 \/ t = 3
      BY <1>8
    <3>2. 1 < 3 /\ 3 < 6 /\ PIPELINE \in NameSet(p[1][2])
      BY <1>7
    <3>3. CASE t = 1
      BY <1>7, <3>3
    <3>4. CASE t = 3
      BY <2>2, <3>2, <3>4
    <3>5. QED
      BY <3>1, <3>3, <3>4
  <2>5. \A t, k : <<t, k>> \in e => "lot_manual_refresh" \notin NameSet(p[t][2])
    BY <1>7, <1>8 DEF PIPELINE, CSV, GATE
  <2>6. \A t, k : \A i \in 1..Len(p[t][2]) : <<t, k>> \in e => p[t][2][i] # "lot_manual_refresh"
    BY <2>5, Named
  <2>7. QED
    BY <1>2, <1>3, <1>5, <2>1, <2>2, <2>3, <2>4, <2>6 DEF Guarded
<1>13. QED
  BY <1>10, <1>11, <1>12 DEF Shape, a

\* The program of the photo retry has its shape.
LEMMA RetryShape ==
  ASSUME NEW c \in BOOLEAN, NEW j \in Job, Kind[j] = "retry",
         NEW p, p = JobProgram(j, c), Len(p) \in Nat, NEW e, e = Ends(<<j, 0>>, c)
  PROVE  Shape(<<j, 0>>, c, p, e)
<1> DEFINE a == <<j, 0>>
           l == PhotoNames(c, FALSE)
           n == IF c THEN 4 ELSE 3
<1>1. /\ p[1] = Take(l)
      /\ c => /\ Size(p, 4) /\ p[2] = Plain("spawn") /\ p[3] = Plain("join") /\ p[4] = Close
      /\ ~c => /\ Size(p, 3) /\ p[2] = Work("photo") /\ p[3] = Close
  BY OtherJobsAre, PhotoIs
<1>2. /\ Listing(l) /\ NameSet(l) \subseteq {PIPELINE, GATE, "photo_sync"} /\ l[1] = PIPELINE
  BY PhotoNamesIs
<1>3. PIPELINE \in NameSet(l)
  BY <1>2, ListingFacts
<1>4. e = {<<1, n>>}
  BY DEF Ends
<1>5. StageLocks(a, c) = {PIPELINE} /\ a[2] = 0
  BY DEF StageLocks, ShardsOf, Worker, Shards, Main
<1> HIDE DEF l, a
<1>6. p[1][1] = "take" /\ p[1][2] = l
  BY <1>1 DEF Take
<1>7. /\ n \in 1..12 /\ Len(p) = n /\ 1 \in 1..n /\ 1 < n /\ p[n][1] = "close"
      /\ \A i \in 1..n : /\ p[i][1] = "take" => i = 1
                         /\ p[i][1] = "close" => i = n
                         /\ p[i][1] = "spawn" => i = 2 /\ c
                         /\ p[i][1] \in {"work", "join"} => 1 < i
  <2>0. PICK k \in Nat : k = Len(p)
    OBVIOUS
  <2>1. CASE c
    <3>1. Size(p, 4) /\ p[2] = Plain("spawn") /\ p[3] = Plain("join") /\ p[4] = Close
      BY <1>1, <2>1
    <3>2. k = 4 /\ n = 4
      <4>1. k >= 4 /\ k <= 4
        BY <2>0, <3>1 DEF Size
      <4>2. QED
        BY <2>1, <4>1
    <3>3. p[2][1] = "spawn" /\ p[3][1] = "join" /\ p[4][1] = "close"
      BY <3>1 DEF Plain, Close
    <3>4. \A i \in 1..4 : i = 1 \/ i = 2 \/ i = 3 \/ i = 4
      OBVIOUS
    <3>5. \A i \in 1..4 : /\ p[i][1] = "take" => i = 1
                          /\ p[i][1] = "close" => i = 4
                          /\ p[i][1] = "spawn" => i = 2
                          /\ p[i][1] \in {"work", "join"} => 1 < i
      BY <1>6, <3>3, <3>4
    <3> HIDE DEF n
    <3>6. Len(p) = n
      BY <2>0, <3>2
    <3>7. n \in 1..12 /\ 1 \in 1..n /\ 1 < n /\ p[n][1] = "close"
      BY <3>2, <3>3
    <3>8. QED
      BY <2>1, <3>2, <3>5, <3>6, <3>7
  <2>2. CASE ~c
    <3>1. Size(p, 3) /\ p[2] = Work("photo") /\ p[3] = Close
      BY <1>1, <2>2
    <3>2. k = 3 /\ n = 3
      BY <2>0, <2>2, <3>1 DEF Size
    <3>3. p[2][1] = "work" /\ p[3][1] = "close"
      BY <3>1 DEF Plain, Close, Work
    <3>4. \A i \in 1..3 : i = 1 \/ i = 2 \/ i = 3
      OBVIOUS
    <3>5. \A i \in 1..3 : /\ p[i][1] = "take" => i = 1
                          /\ p[i][1] = "close" => i = 3
                          /\ p[i][1] = "spawn" => i = 2 /\ c
                          /\ p[i][1] \in {"work", "join"} => 1 < i
      BY <1>6, <2>2, <3>3, <3>4
    <3>6. QED
      BY <2>0, <3>2, <3>3, <3>5
  <2>3. QED
    BY <2>1, <2>2
<1> HIDE DEF n
<1>8. \A i \in 1..Len(p[1][2]) : p[1][2][i] # "lot_manual_refresh"
  BY SMTT(60), <1>2, <1>6, Named DEF PIPELINE, GATE
<1>9. Listing(p[1][2]) /\ StageLocks(a, c) \subseteq NameSet(p[1][2]) /\ p[1][2][1] = PIPELINE
  BY <1>2, <1>3, <1>5, <1>6
<1>10. Shape(a, c, p, e)
  <2>1. /\ ((\E i \in 1..n : p[i][1] = "work") /\ (a[2] = 0 \/ c))
             => StageLocks(a, c) \subseteq NameSet(p[1][2])
        /\ a[2] = 0 => \/ p[1][2][1] = PIPELINE
                       \/ p[1][2][1] = "lot_manual_refresh" /\ Len(p[1][2]) >= 2 /\ p[1][2][2] = PIPELINE
        /\ a[2] # 0 => PIPELINE \notin NameSet(p[1][2])
        /\ \A i \in 1..Len(p[1][2]) : p[1][2][i] = "lot_manual_refresh" => i = 1
        /\ Listing(p[1][2]) /\ p[1][1] = "take"
    BY <1>5, <1>6, <1>8, <1>9
  <2>2. \A i \in 1..n : /\ (p[i][1] = "take" => i = 1)
                        /\ (p[i][1] = "close" => i = n)
                        /\ (p[i][1] \in {"work", "join"} => 1 < i)
                        /\ (p[i][1] = "spawn" => i = 2 /\ a[2] = 0 /\ c)
    BY <1>5, <1>7
  <2>3. QED
    BY ZenonT(60), <1>4, <1>7, <2>1, <2>2, OneTakeShape
<1>11. QED
  BY <1>10 DEF a

\* The program of photo:sync of one shard has its shape.
LEMMA SyncShape ==
  ASSUME NEW c \in BOOLEAN, NEW j \in Job, Kind[j] = "sync"
  PROVE  Shape(<<j, 0>>, c, JobProgram(j, c), Ends(<<j, 0>>, c))
<1> DEFINE a == <<j, 0>>
           first == PhotoLocks(c)[1]
           l == <<PIPELINE, GATE, first>>
           p == JobProgram(j, c)
<1>1. p = <<Take(l), Work("photo"), Close>>
  BY OtherJobsAre
<1>2. Ends(a, c) = {<<1, 3>>}
  BY DEF Ends
<1>3. /\ first \in LockName /\ (c => first = WorkerLocks[1])
      /\ first \notin {PIPELINE, GATE, "lot_manual_refresh"}
  BY PhotoLocksIs DEF Listing
<1>4. a \in Main /\ a \notin Worker /\ a[2] = 0 /\ ShardsOf(a) = {1}
  BY DEF Main, Worker, Shards, ShardsOf
<1> HIDE DEF first, p, a
<1>5. StageLocks(a, c) \subseteq {PIPELINE, first}
  BY <1>3, <1>4 DEF StageLocks
<1>6. PIPELINE \in LockName /\ GATE \in LockName
  BY DEF LockName, OtherLocks
<1>7. l \in Seq(LockName) /\ Len(l) = 3 /\ l[1] = PIPELINE /\ l[2] = GATE /\ l[3] = first
  BY <1>3, <1>6
<1> HIDE DEF l
<1>8. \A i \in 1..3 : i = 1 \/ i = 2 \/ i = 3
  OBVIOUS
<1>9. Listing(l)
  BY <1>3, <1>7, <1>8 DEF Listing, PIPELINE, GATE
<1>10. NameSet(l) = {PIPELINE, GATE, first}
  BY <1>7, <1>8 DEF NameSet
<1>11. "lot_manual_refresh" \notin NameSet(l)
  BY <1>3, <1>10 DEF PIPELINE, GATE
<1>12. StageLocks(a, c) \subseteq NameSet(l) /\ l[1] = PIPELINE
  BY <1>5, <1>7, <1>10
<1>13. Shape(a, c, p, {<<1, 3>>})
  BY <1>1, <1>4, <1>9, <1>11, <1>12, ThreeSteps
<1>14. QED
  BY <1>2, <1>13 DEF a, p

\* The program of retention:cleanup has its shape.
LEMMA RetentionShape ==
  ASSUME NEW c \in BOOLEAN, NEW j \in Job, Kind[j] = "retention"
  PROVE  Shape(<<j, 0>>, c, JobProgram(j, c), Ends(<<j, 0>>, c))
<1> DEFINE a == <<j, 0>>
           l == RetentionNames
           p == JobProgram(j, c)
<1>1. p = <<Take(l), Work("cleanup"), Close>>
  BY Zenon DEF JobProgram
<1>2. Ends(a, c) = {<<1, 3>>}
  BY DEF Ends
<1>3. StageLocks(a, c) = {PIPELINE} /\ a[2] = 0
  BY DEF StageLocks, ShardsOf, Worker, Shards, Main
<1>4. /\ Listing(l) /\ NameSet(l) = {PIPELINE, GATE, "retention_cleanup"} /\ l[1] = PIPELINE
  BY FixedLists
<1> HIDE DEF l, p, a
<1>5. "lot_manual_refresh" \notin NameSet(l)
  BY <1>4 DEF PIPELINE, GATE
<1>6. Shape(a, c, p, {<<1, 3>>})
  BY <1>1, <1>3, <1>4, <1>5, ThreeSteps
<1>7. QED
  BY <1>2, <1>6 DEF a, p

\* The program of a worker has its shape.
LEMMA WorkerShape ==
  ASSUME NEW c \in BOOLEAN, NEW a \in Worker
  PROVE  Shape(a, c, WorkerProgram(a[2]), Ends(a, c))
<1> DEFINE name == WorkerLocks[a[2]]
           l == <<name>>
           p == WorkerProgram(a[2])
<1>1. p = <<Take(l), Work("photo"), Close>>
  BY DEF WorkerProgram
<1>2. a[2] \in Shards /\ a[2] # 0
  BY DEF Worker, Shards
<1>3. Ends(a, c) = {<<1, 3>>}
  BY <1>2 DEF Ends
<1>4. name \in LockName /\ name \notin OtherLocks
  BY <1>2, WorkerAssumption DEF LockName, Shards
<1>5. name # PIPELINE /\ name # "lot_manual_refresh"
  BY <1>4 DEF OtherLocks
<1>6. ShardsOf(a) = {a[2]}
  <2>1. a \in Worker /\ a \notin Main
    BY <1>2 DEF Main
  <2>2. QED
    BY <2>1 DEF ShardsOf
<1>7. c => StageLocks(a, c) = {name}
  BY <1>2, <1>6 DEF StageLocks
<1> HIDE DEF name, p
<1>8. Listing(l)
  BY <1>4 DEF Listing
<1>9. NameSet(l) = {name}
  BY DEF NameSet
<1> HIDE DEF l
<1>10. Shape(a, c, p, {<<1, 3>>})
  BY <1>1, <1>2, <1>5, <1>7, <1>8, <1>9, ThreeSteps
<1>11. QED
  BY <1>3, <1>10 DEF p

\* The program of the manual refresh has its shape.
LEMMA ManualShape ==
  ASSUME NEW c \in BOOLEAN, NEW j \in Job, Kind[j] = "manual"
  PROVE  Shape(<<j, 0>>, c, JobProgram(j, c), Ends(<<j, 0>>, c))
<1> DEFINE a == <<j, 0>>
           l == GuardNames(c)
           p == JobProgram(j, c)
           e == Ends(a, c)
<1>1. p = <<Plain("find"), Plain("look"), Take(l), Work("upsert"), Work("photo"), Close>>
  BY Zenon DEF JobProgram
<1>2. e = {<<3, 6>>}
  BY DEF Ends
<1>3. a \in Main /\ a \notin Worker /\ a[2] = 0 /\ ShardsOf(a) = Shards
  BY DEF Main, Worker, Shards, ShardsOf
<1>4. /\ Listing(l) /\ Len(l) >= 4 /\ l[1] = "lot_manual_refresh" /\ l[2] = PIPELINE
      /\ NameSet(PhotoLocks(c)) \subseteq NameSet(l)
  BY GuardNamesIs
<1>5. Len(l) \in Nat /\ 1 \in 1..Len(l) /\ 2 \in 1..Len(l)
  BY <1>4, ListingFacts
<1> HIDE DEF l, p, a, e
<1>6. StageLocks(a, c) \subseteq NameSet(l)
  <2>1. PIPELINE \in NameSet(l)
    BY <1>4, <1>5, Named
  <2>2. c => \A i \in Shards : WorkerLocks[i] \in NameSet(PhotoLocks(c))
    BY PhotoLocksIs DEF Shards, NameSet
  <2>3. QED
    BY <1>3, <1>4, <2>1, <2>2 DEF StageLocks
<1>7. /\ p[1] = Plain("find") /\ p[2] = Plain("look") /\ p[3] = Take(l) /\ p[4] = Work("upsert")
      /\ p[5] = Work("photo") /\ p[6] = Close
  BY <1>1
<1>8. Len(p) = 6
  BY <1>1
<1>9. /\ p[1][1] = "find" /\ p[2][1] = "look" /\ p[3][1] = "take" /\ p[3][2] = l
      /\ p[4][1] = "work" /\ p[5][1] = "work" /\ p[6][1] = "close"
  BY <1>7 DEF Plain, Take, Work, Close
<1>10. \A i \in 1..6 : i = 1 \/ i = 2 \/ i = 3 \/ i = 4 \/ i = 5 \/ i = 6
  OBVIOUS
<1>11. \A i \in 1..6 : /\ (p[i][1] = "take" => i = 3)
                       /\ (p[i][1] = "close" => i = 6)
                       /\ (p[i][1] \in {"work", "join"} => 3 < i)
                       /\ (p[i][1] = "spawn" => i = 2 /\ a[2] = 0 /\ c)
  BY <1>9, <1>10
<1>12. \A i \in 1..Len(p[3][2]) : p[3][2][i] = "lot_manual_refresh" => i = 1
  BY <1>4, <1>5, <1>9 DEF Listing
<1>13. /\ Listing(p[3][2]) /\ StageLocks(a, c) \subseteq NameSet(p[3][2])
       /\ p[3][2][1] = "lot_manual_refresh" /\ Len(p[3][2]) >= 2 /\ p[3][2][2] = PIPELINE
  BY SMTT(60), <1>4, <1>5, <1>6, <1>9
<1>14. Shape(a, c, p, e)
  <2>1. 6 \in 1..12 /\ 3 \in 1..6 /\ 3 < 6
    OBVIOUS
  <2>2. /\ ((\E i \in 1..6 : p[i][1] = "work") /\ (a[2] = 0 \/ c))
             => StageLocks(a, c) \subseteq NameSet(p[3][2])
        /\ a[2] = 0 => \/ p[3][2][1] = PIPELINE
                       \/ p[3][2][1] = "lot_manual_refresh" /\ Len(p[3][2]) >= 2 /\ p[3][2][2] = PIPELINE
        /\ a[2] # 0 => PIPELINE \notin NameSet(p[3][2])
    BY <1>3, <1>13
  <2>3. QED
    BY ZenonT(60), <1>2, <1>8, <1>9, <1>11, <1>12, <1>13, <2>1, <2>2, OneTakeShape
<1>15. QED
  BY <1>14 DEF a, p, e

\* Every program has its shape.
LEMMA ProgramShape ==
  ASSUME NEW c \in BOOLEAN, NEW a \in Actor
  PROVE  Shape(a, c, Programs[c][a], Ends(a, c))
<1>1. Programs[c][a] = IF a[2] = 0 THEN JobProgram(a[1], c) ELSE WorkerProgram(a[2])
  BY DEF Programs
<1>2. CASE a \in Worker
  <2>1. a[2] # 0
    BY <1>2 DEF Worker, Shards
  <2>2. QED
    BY <1>1, <1>2, <2>1, WorkerShape
<1>3. CASE a \in Main
  <2>1. PICK j \in Job : a = <<j, 0>>
    BY <1>3 DEF Main
  <2>2. Programs[c][a] = JobProgram(j, c)
    BY <1>1, <2>1
  <2>3. Kind[j] \in {"pipeline", "ingest", "retry", "sync", "retention", "manual"}
    BY JobAssumption DEF Kinds
  <2>4. Kind[j] \in {"pipeline", "ingest", "retry"} => JobProgram(j, c) \in Seq(JobSteps)
    BY PipelineIs, IngestJobIs, OtherJobsAre, PhotoIs
  <2>5. \A p \in Seq(JobSteps) : Len(p) \in Nat
    OBVIOUS
  <2>6. Kind[j] \in {"pipeline", "ingest", "retry"} => Len(JobProgram(j, c)) \in Nat
    BY <2>4, <2>5
  <2>7. QED
    BY <2>1, <2>2, <2>3, <2>6, PipelineShape, IngestShape, RetryShape, SyncShape, RetentionShape, ManualShape
<1>4. QED
  BY <1>2, <1>3 DEF Actor
-----------------------------------------------------------------------------
(* The locks of one actor, take by take: G is what it has been granted at  *)
(* each take of its program p, W the takes whose callback runs, i the step *)
(* it is at and m its mode.                                                *)

\* The first m names of a list.
Prefix(l, m) == {l[k] : k \in 1..m}

\* The takes step i is inside of; a close is inside the take it ends.
Around(p, e, i) ==
  {t \in TakeSteps(p) : \E k : <<t, k>> \in e /\ t < i /\ i <= k}

Open(p, G) == {i \in TakeSteps(p) : G[i] # {}}

\* Locks are taken in the order of the list; a callback runs when all are held.
Kept(p, G, W) ==
  \A i \in TakeSteps(p) :
    /\ \E m \in 0..Len(p[i][2]) : G[i] = Prefix(p[i][2], m)
    /\ i \in W => G[i] = NameSet(p[i][2])

\* A take has names only while the callback of each take around it runs.
Nesting(p, e, G, W) == \A u \in Open(p, G) : Around(p, e, u) \subseteq W

\* A job on its way holds what is around its step, all of it working but for
\* the take its step closes, and the names of its step as far as it has got.
Placed(p, e, i, G, W) ==
  /\ i \in 1..Len(p)
  /\ Open(p, G) \subseteq Around(p, e, i) \cup {i}
  /\ Around(p, e, i) \subseteq Open(p, G)
  /\ \A t \in Around(p, e, i) : t \in W \/ <<t, i>> \in e
  /\ i \in TakeSteps(p) => G[i] # NameSet(p[i][2])

\* What holds of an actor's own locks.
Lived(p, e, i, m, G, W) ==
  /\ G \in [TakeSteps(p) -> SUBSET LockName] /\ W \subseteq TakeSteps(p)
  /\ i \in 1..(Len(p) + 1)
  /\ m \in {"idle", "run", "unwind", "over", "dead"}
  /\ Kept(p, G, W) /\ Nesting(p, e, G, W)
  /\ m = "run" => Placed(p, e, i, G, W)
  /\ m = "unwind" => Open(p, G) # {}
  /\ m \in {"idle", "over", "dead"} => Open(p, G) = {}
  /\ m = "idle" => i = 1

\* A nonempty set of numbers has a least one.
LEMMA FirstOf ==
  ASSUME NEW D \in SUBSET Nat, D # {}
  PROVE  \E d \in D : \A x \in D : d <= x
<1> DEFINE Less == {ss \in Nat \X Nat : ss[1] < ss[2]}
<1>1. IsWellFoundedOn(Less, Nat)
  BY NatLessThanWellFounded DEF OpToRel
<1>2. PICK d \in D : \A x \in D : <<x, d>> \notin Less
  <2> HIDE DEF Less
  <2> QED
    BY <1>1, WFMin
<1>3. \A x \in D : x \in Nat /\ d \in Nat /\ ~(x < d)
  BY <1>2
<1>4. QED
  BY <1>3

\* A nonempty set of positions has a last one.
LEMMA LastOf ==
  ASSUME NEW k \in Nat, NEW I \in SUBSET (1..k), I # {}
  PROVE  \E i \in I : \A j \in I : j <= i
<1> DEFINE D == {k - i : i \in I}
<1>0. \A i \in I : i \in Nat /\ i <= k /\ k - i \in Nat
  OBVIOUS
<1>1. D \in SUBSET Nat /\ D # {}
  BY <1>0
<1>2. PICK d \in D : \A x \in D : d <= x
  <2> HIDE DEF D
  <2> QED
    BY <1>1, FirstOf
<1>3. PICK i \in I : d = k - i
  BY <1>2
<1>4. \A j \in I : k - i <= k - j
  BY <1>2, <1>3
<1>5. QED
  BY <1>0, <1>4

\* The prefixes of a list of locks.
LEMMA PrefixIs ==
  ASSUME NEW l, Listing(l), NEW m \in 0..Len(l)
  PROVE  /\ Prefix(l, m) \subseteq NameSet(l) /\ NameSet(l) \subseteq LockName
         /\ Cardinality(Prefix(l, m)) = m
         /\ Prefix(l, m) = {} <=> m = 0
         /\ Prefix(l, m) = NameSet(l) <=> m = Len(l)
         /\ m < Len(l) => /\ l[m + 1] \in NameSet(l) \ Prefix(l, m)
                          /\ Prefix(l, m) \cup {l[m + 1]} = Prefix(l, m + 1)
         /\ m > 0 => /\ l[m] \in Prefix(l, m)
                     /\ Prefix(l, m) \ {l[m]} = Prefix(l, m - 1)
<1>1. /\ Len(l) \in Nat /\ Len(l) >= 1
      /\ \A i \in 1..Len(l) : l[i] \in LockName
      /\ \A i, j \in 1..Len(l) : l[i] = l[j] => i = j
  BY DEF Listing
<1>2. Prefix(l, m) \subseteq NameSet(l) /\ NameSet(l) \subseteq LockName
  BY <1>1 DEF Prefix, NameSet
<1>3. Cardinality(Prefix(l, m)) = m
  <2> DEFINE f == [i \in 1..m |-> l[i]]
  <2>1. f \in Bijection(1..m, Prefix(l, m))
    <3>1. f \in [1..m -> Prefix(l, m)]
      BY DEF Prefix
    <3>2. \A i, j \in 1..m : f[i] = f[j] => i = j
      BY <1>1
    <3>3. \A n \in Prefix(l, m) : \E i \in 1..m : f[i] = n
      BY DEF Prefix
    <3>4. QED
      BY <3>1, <3>2, <3>3 DEF Bijection, Injection, Surjection, IsInjective
  <2>2. ExistsBijection(1..m, Prefix(l, m))
    BY <2>1 DEF ExistsBijection
  <2>3. IsFiniteSet(1..m) /\ Cardinality(1..m) = m
    BY FS_Interval
  <2>4. QED
    BY <2>2, <2>3, FS_Bijection
<1>4. Prefix(l, m) = {} <=> m = 0
  <2>1. m = 0 => 1..m = {}
    OBVIOUS
  <2>2. m # 0 => 1 \in 1..m
    OBVIOUS
  <2>3. QED
    BY <2>1, <2>2 DEF Prefix
<1>5. m < Len(l) => /\ l[m + 1] \in NameSet(l) \ Prefix(l, m)
                    /\ Prefix(l, m) \cup {l[m + 1]} = Prefix(l, m + 1)
  <2> SUFFICES ASSUME m < Len(l)
               PROVE  /\ l[m + 1] \in NameSet(l) \ Prefix(l, m)
                      /\ Prefix(l, m) \cup {l[m + 1]} = Prefix(l, m + 1)
    OBVIOUS
  <2>1. m + 1 \in 1..Len(l) /\ m + 1 \notin 1..m /\ 1..(m + 1) = (1..m) \cup {m + 1}
        /\ 1..m \subseteq 1..Len(l)
    BY <1>1
  <2>2. QED
    BY <1>1, <2>1 DEF Prefix, NameSet
<1>6. m > 0 => /\ l[m] \in Prefix(l, m)
               /\ Prefix(l, m) \ {l[m]} = Prefix(l, m - 1)
  <2> SUFFICES ASSUME m > 0
               PROVE  l[m] \in Prefix(l, m) /\ Prefix(l, m) \ {l[m]} = Prefix(l, m - 1)
    OBVIOUS
  <2>1. m \in 1..m /\ m \in 1..Len(l) /\ 1..(m - 1) = (1..m) \ {m} /\ 1..m \subseteq 1..Len(l)
    BY <1>1
  <2>2. QED
    BY <1>1, <2>1 DEF Prefix
<1>7. Prefix(l, m) = NameSet(l) <=> m = Len(l)
  <2>1. m = Len(l) => Prefix(l, m) = NameSet(l)
    BY DEF Prefix, NameSet
  <2>2. m < Len(l) => Prefix(l, m) # NameSet(l)
    BY <1>5
  <2>3. m = Len(l) \/ m < Len(l)
    BY <1>1
  <2>4. QED
    BY <2>1, <2>2, <2>3, <1>1
<1>8. QED
  BY <1>2, <1>3, <1>4, <1>5, <1>6, <1>7
\* What a step is inside of, from one step to the next.
LEMMA AroundNext ==
  ASSUME NEW p, NEW e, Nested(p, e), NEW i \in 1..Len(p)
  PROVE  /\ Around(p, e, 1) = {} /\ i \notin Around(p, e, i)
         /\ p[i][1] \notin {"take", "close"} =>
              /\ i < Len(p) /\ Around(p, e, i + 1) = Around(p, e, i)
              /\ \A t : <<t, i>> \notin e
         /\ p[i][1] = "take" =>
              /\ i < Len(p) /\ Around(p, e, i + 1) = Around(p, e, i) \cup {i}
              /\ \A t : <<t, i>> \notin e
         /\ \A t : <<t, i>> \in e =>
              /\ t \in Around(p, e, i) /\ Around(p, e, i + 1) = Around(p, e, i) \ {t}
              /\ \A u \in Around(p, e, i) : u <= t /\ (<<u, i>> \in e => u = t)
              /\ i = Len(p) => Around(p, e, i) = {t}
<1> DEFINE L == Len(p)
<1>1. /\ L \in 1..12
      /\ \A t, k : <<t, k>> \in e =>
           t \in 1..L /\ k \in 1..L /\ t < k /\ p[t][1] = "take" /\ p[k][1] = "close"
      /\ \A t, k, u, l : <<t, k>> \in e /\ <<u, l>> \in e =>
           (t = u <=> k = l) /\ (t < u => l < k \/ k < u)
      /\ \A j \in 1..L : p[j][1] = "take" => \E k : <<j, k>> \in e
      /\ \E t : <<t, L>> \in e
  BY DEF Nested
<1>2. \A j, t : t \in Around(p, e, j) <=> \E k : <<t, k>> \in e /\ t < j /\ j <= k
  BY <1>1 DEF Around, TakeSteps
<1> HIDE DEF L
<1>3. i \in 1..L /\ i \in Int
  BY DEF L
<1>a. \A t, k : <<t, k>> \in e => t \in Int /\ k \in Int /\ 1 <= t /\ t < k /\ k <= L
  BY <1>1
<1>4. \A t : t \notin Around(p, e, 1)
  <2> SUFFICES ASSUME NEW t \in Around(p, e, 1)
               PROVE  FALSE
    OBVIOUS
  <2>1. PICK k : <<t, k>> \in e /\ t < 1
    BY <1>2
  <2>2. QED
    BY <2>1, <1>a
<1>5. i \notin Around(p, e, i)
  <2> SUFFICES ASSUME i \in Around(p, e, i)
               PROVE  FALSE
    OBVIOUS
  <2>1. i < i
    BY <1>2
  <2>2. QED
    BY <2>1, <1>3
<1>6. (p[i][1] # "close" => i < L) /\ (p[i][1] # "close" => \A t : <<t, i>> \notin e)
  BY <1>1, <1>3
<1>7. ASSUME NEW t, p[i][1] # "close"
      PROVE  t \in Around(p, e, i + 1) <=>
               t \in Around(p, e, i) \/ (t = i /\ p[i][1] = "take")
  <2>1. ASSUME NEW k, <<t, k>> \in e
        PROVE  (t < i + 1 /\ i + 1 <= k) <=> (t < i /\ i <= k) \/ t = i
    <3>1. t \in Int /\ k \in Int /\ t < k /\ k # i
      BY <1>1, <1>6, <1>7, <2>1
    <3>2. QED
      BY <3>1, <1>3
  <2>2. CASE t \in Around(p, e, i + 1)
    <3>1. PICK k : <<t, k>> \in e /\ t < i + 1 /\ i + 1 <= k
      BY <1>2, <2>2
    <3>2. QED
      BY <3>1, <2>1, <1>2, <1>1
  <2>3. CASE t \in Around(p, e, i)
    <3>1. PICK k : <<t, k>> \in e /\ t < i /\ i <= k
      BY <1>2, <2>3
    <3>2. QED
      BY <3>1, <2>1, <1>2
  <2>4. CASE t = i /\ p[i][1] = "take"
    <3>1. PICK k : <<t, k>> \in e
      BY <2>4, <1>1, <1>3
    <3>2. QED
      BY <3>1, <2>4, <2>1, <1>2
  <2>5. QED
    BY <2>2, <2>3, <2>4
<1>8. ASSUME NEW t, <<t, i>> \in e
      PROVE  /\ t \in Around(p, e, i) /\ Around(p, e, i + 1) = Around(p, e, i) \ {t}
             /\ \A u \in Around(p, e, i) : u <= t /\ (<<u, i>> \in e => u = t)
             /\ i = L => Around(p, e, i) = {t}
  <2>0. t \in Int /\ t < i /\ i <= i
    BY <1>a, <1>3, <1>8
  <2>1. t \in Int /\ t < i /\ t \in Around(p, e, i)
    BY <1>2, <1>8, <2>0
  <2>2. ASSUME NEW u, NEW k, <<u, k>> \in e, u < i, i <= k
        PROVE  /\ u \in Int /\ k \in Int /\ k <= L /\ u <= t /\ (k = i <=> u = t)
    <3>1. u \in Int /\ k \in Int /\ k <= L /\ (k = i <=> u = t)
      BY <1>1, <1>8, <2>2
    <3>2. t < u => k < i \/ i < u
      BY <1>1, <1>8, <2>2
    <3>3. QED
      BY <1>3, <2>1, <2>2, <3>1, <3>2
  <2>3. ASSUME NEW u
        PROVE  u \in Around(p, e, i + 1) <=> u \in Around(p, e, i) /\ u # t
    <3>1. CASE u \in Around(p, e, i + 1)
      <4>1. PICK k : <<u, k>> \in e /\ u < i + 1 /\ i + 1 <= k
        BY <1>2, <3>1
      <4>2. u \in Int /\ k \in Int /\ p[u][1] = "take" /\ p[i][1] = "close"
        BY <4>1, <1>1, <1>8
      <4>3. u < i /\ i <= k /\ k # i
        BY <4>1, <4>2, <1>3
      <4>4. QED
        BY <4>1, <4>3, <2>2, <1>2
    <3>2. CASE u \in Around(p, e, i) /\ u # t
      <4>1. PICK k : <<u, k>> \in e /\ u < i /\ i <= k
        BY <1>2, <3>2
      <4>2. u \in Int /\ k \in Int /\ k # i
        BY <4>1, <2>2, <3>2
      <4>3. u < i + 1 /\ i + 1 <= k
        BY <4>1, <4>2, <1>3
      <4>4. u \in Around(p, e, i + 1)
        BY <4>1, <4>3, <1>2
      <4>5. QED
        BY <4>4, <3>2
    <3>3. QED
      BY <3>1, <3>2
  <2>4. \A u \in Around(p, e, i) : u <= t /\ (<<u, i>> \in e => u = t)
    BY ZenonT(60), <2>2, <1>2, <1>1, <1>8
  <2>5. ASSUME i = L, NEW u \in Around(p, e, i)
        PROVE  u = t
    <3>1. PICK k : <<u, k>> \in e /\ u < i /\ i <= k
      BY <1>2
    <3>2. k \in Int /\ k <= L /\ (k = i <=> u = t)
      BY <3>1, <2>2
    <3>3. k = i
      BY <3>1, <3>2, <2>5, <1>3
    <3>4. QED
      BY <3>2, <3>3
  <2>6. QED
    BY <2>1, <2>3, <2>4, <2>5
<1>9. p[i][1] # "close" /\ p[i][1] # "take" => Around(p, e, i + 1) = Around(p, e, i)
  BY <1>7
<1>10. p[i][1] = "take" => Around(p, e, i + 1) = Around(p, e, i) \cup {i}
  BY <1>7
<1>11. QED
  BY <1>4, <1>5, <1>6, <1>8, <1>9, <1>10 DEF L
\* A list of locks names something.
LEMMA SomeName ==
  ASSUME NEW l, Listing(l)
  PROVE  NameSet(l) # {} /\ Prefix(l, 0) = {} /\ Len(l) \in Nat
<1>1. Len(l) \in Nat /\ Len(l) >= 1 /\ 1 \in 1..Len(l)
  BY DEF Listing
<1>2. l[1] \in NameSet(l)
  BY <1>1 DEF NameSet
<1>3. 1..0 = {}
  OBVIOUS
<1>4. QED
  BY <1>1, <1>2, <1>3 DEF Prefix

\* The takes of a program.
LEMMA TakesAre ==
  ASSUME NEW p, NEW e, Nested(p, e), TakesLists(p, e)
  PROVE  /\ Len(p) \in 1..12 /\ TakeSteps(p) \subseteq 1..Len(p)
         /\ \A i \in TakeSteps(p) : p[i][1] = "take" /\ Listing(p[i][2])
         /\ \A i : Around(p, e, i) \subseteq TakeSteps(p)
BY DEF Nested, TakesLists, TakeSteps, Around

\* Who holds nothing may be anywhere, and may start at the first step.
LEMMA LivesWithout ==
  ASSUME NEW p, NEW e, Nested(p, e), TakesLists(p, e),
         NEW i \in 1..(Len(p) + 1), NEW m \in {"idle", "run", "over", "dead"},
         m \in {"idle", "run"} => i = 1,
         NEW G, G = [t \in TakeSteps(p) |-> {}], NEW W, W = {}
  PROVE  Lived(p, e, i, m, G, W)
<1>1. Open(p, G) = {} /\ \A t \in TakeSteps(p) : G[t] = {}
  BY DEF Open
<1>2. Kept(p, G, W)
  <2> SUFFICES ASSUME NEW t \in TakeSteps(p)
               PROVE  \E n \in 0..Len(p[t][2]) : G[t] = Prefix(p[t][2], n)
    BY DEF Kept
  <2>1. Len(p[t][2]) \in Nat /\ Prefix(p[t][2], 0) = {}
    BY TakesAre, SomeName
  <2>2. 0 \in 0..Len(p[t][2])
    BY <2>1
  <2>3. QED
    BY <2>1, <2>2, <1>1
<1>3. Nesting(p, e, G, W)
  BY <1>1 DEF Nesting
<1>4. m = "run" => Placed(p, e, i, G, W)
  <2> SUFFICES ASSUME i = 1
               PROVE  Placed(p, e, 1, G, W)
    OBVIOUS
  <2>1. 1 \in 1..Len(p)
    BY TakesAre
  <2>2. Around(p, e, 1) = {}
    BY <2>1, AroundNext
  <2>3. 1 \in TakeSteps(p) => G[1] # NameSet(p[1][2])
    BY <1>1, TakesAre, SomeName
  <2>4. QED
    BY <1>1, <2>1, <2>2, <2>3 DEF Placed
<1>5. QED
  BY <1>1, <1>2, <1>3, <1>4 DEF Lived

\* Who holds nothing has been granted nothing.
LEMMA HoldsNothing ==
  ASSUME NEW p, NEW e, Nested(p, e), TakesLists(p, e),
         NEW i, NEW m, NEW G, NEW W, Lived(p, e, i, m, G, W), Open(p, G) = {}
  PROVE  G = [t \in TakeSteps(p) |-> {}] /\ W = {}
<1>1. G \in [TakeSteps(p) -> SUBSET LockName] /\ \A t \in TakeSteps(p) : G[t] = {}
  BY DEF Lived, Open
<1>2. G = [t \in TakeSteps(p) |-> {}]
  BY <1>1
<1>3. \A t \in TakeSteps(p) : t \notin W
  BY <1>1, TakesAre, SomeName DEF Lived, Kept
<1>4. QED
  BY <1>2, <1>3 DEF Lived

\* A job starts at its first step.
LEMMA Starts ==
  ASSUME NEW p, NEW e, Nested(p, e), TakesLists(p, e),
         NEW i, NEW G, NEW W, Lived(p, e, i, "idle", G, W)
  PROVE  Lived(p, e, i, "run", G, W)
<1>1. Open(p, G) = {} /\ i = 1 /\ i \in 1..(Len(p) + 1)
  BY DEF Lived
<1>2. G = [t \in TakeSteps(p) |-> {}] /\ W = {}
  BY <1>1, HoldsNothing
<1>3. QED
  BY <1>1, <1>2, LivesWithout

\* A job that takes the way out keeps what it has for the moment.
LEMMA WayOut ==
  ASSUME NEW p, NEW e, NEW i, NEW m \in {"run", "unwind"}, NEW G, NEW W,
         Lived(p, e, i, m, G, W), NEW m2,
         m2 = IF Open(p, G) = {} THEN "over" ELSE "unwind"
  PROVE  Lived(p, e, i, m2, G, W)
<1>1. CASE Open(p, G) = {}
  <2>1. m2 = "over"
    BY <1>1
  <2>2. QED
    BY <1>1, <2>1 DEF Lived
<1>2. CASE Open(p, G) # {}
  <2>1. m2 = "unwind"
    BY <1>2
  <2>2. QED
    BY <1>2, <2>1 DEF Lived
<1>3. QED
  BY <1>1, <1>2

\* A step that takes or closes nothing moves the job on.
LEMMA MovesOn ==
  ASSUME NEW p, NEW e, Nested(p, e), TakesLists(p, e),
         NEW i, NEW G, NEW W, Lived(p, e, i, "run", G, W), p[i][1] \notin {"take", "close"}
  PROVE  i < Len(p) /\ Lived(p, e, i + 1, "run", G, W)
<1>1. Placed(p, e, i, G, W) /\ i \in 1..Len(p)
  BY DEF Lived, Placed
<1>2. /\ i < Len(p) /\ Around(p, e, i + 1) = Around(p, e, i)
      /\ \A t : <<t, i>> \notin e
  BY <1>1, AroundNext
<1>3. Len(p) \in 1..12 /\ i \in Int
  BY TakesAre, <1>1
<1>4. i + 1 \in 1..Len(p) /\ i + 1 \in 1..(Len(p) + 1)
  BY <1>1, <1>2, <1>3
<1>5. Open(p, G) \subseteq Around(p, e, i)
  BY <1>1 DEF Placed, Open, TakeSteps
<1>6. i + 1 \in TakeSteps(p) => G[i + 1] # NameSet(p[i + 1][2])
  <2> SUFFICES ASSUME i + 1 \in TakeSteps(p)
               PROVE  G[i + 1] # NameSet(p[i + 1][2])
    OBVIOUS
  <2>1. i + 1 \notin Around(p, e, i + 1)
    BY <1>4, AroundNext
  <2>2. G[i + 1] = {}
    BY <2>1, <1>2, <1>5 DEF Open
  <2>3. QED
    BY <2>2, TakesAre, SomeName
<1>7. Placed(p, e, i + 1, G, W)
  <2>1. \A t \in Around(p, e, i) : t \in W
    BY <1>1, <1>2 DEF Placed
  <2>2. Around(p, e, i) \subseteq Open(p, G)
    BY <1>1 DEF Placed
  <2>3. QED
    BY <1>2, <1>4, <1>5, <1>6, <2>1, <2>2 DEF Placed
<1>8. QED
  BY <1>2, <1>4, <1>7 DEF Lived
\* The next lock n of the take i, what is granted and works with it, and the step
\* the job is at then.
TakesName(p, i, G, W, n, G2, W2, i2) ==
  /\ n = p[i][2][Cardinality(G[i]) + 1]
  /\ G2 = [G EXCEPT ![i] = @ \cup {n}]
  /\ W2 = IF G[i] \cup {n} = NameSet(p[i][2]) THEN W \cup {i} ELSE W
  /\ i2 = IF i \in W2 THEN i + 1 ELSE i

\* The next lock of a take; with the last one the job moves on.
LEMMA TakesNext ==
  ASSUME NEW p, NEW e, Nested(p, e), TakesLists(p, e),
         NEW i, NEW G, NEW W, Lived(p, e, i, "run", G, W), p[i][1] = "take",
         NEW n, NEW G2, NEW W2, NEW i2, TakesName(p, i, G, W, n, G2, W2, i2)
  PROVE  /\ i \in TakeSteps(p) /\ i \notin W /\ n \in NameSet(p[i][2]) \ G[i]
         /\ Lived(p, e, i2, "run", G2, W2)
<1> DEFINE l == p[i][2]
           A == Around(p, e, i)
<1>0. /\ n = p[i][2][Cardinality(G[i]) + 1]
      /\ G2 = [G EXCEPT ![i] = @ \cup {n}]
      /\ W2 = IF G[i] \cup {n} = NameSet(p[i][2]) THEN W \cup {i} ELSE W
      /\ i2 = IF i \in W2 THEN i + 1 ELSE i
  BY DEF TakesName
<1>1. /\ Placed(p, e, i, G, W) /\ i \in 1..Len(p) /\ i \in TakeSteps(p)
      /\ G \in [TakeSteps(p) -> SUBSET LockName] /\ W \subseteq TakeSteps(p)
      /\ Kept(p, G, W) /\ Nesting(p, e, G, W)
  BY DEF Lived, Placed, TakeSteps
<1>2. Listing(l) /\ Len(p) \in 1..12 /\ i \in Int /\ A \subseteq TakeSteps(p)
  BY <1>1, TakesAre
<1>3. PICK m \in 0..Len(l) : G[i] = Prefix(l, m)
  BY <1>1 DEF Kept
<1>4. Len(l) \in Nat /\ G[i] # NameSet(l)
  BY <1>1, <1>2, SomeName DEF Placed
<1>5. m < Len(l) /\ Cardinality(G[i]) = m
  BY <1>2, <1>3, <1>4, PrefixIs
<1>6. n = l[m + 1] /\ n \in NameSet(l) \ G[i] /\ G[i] \cup {n} = Prefix(l, m + 1)
  BY <1>0, <1>2, <1>3, <1>5, PrefixIs
<1>7. m + 1 \in 0..Len(l)
  BY <1>4, <1>5
<1>8. NameSet(l) \subseteq LockName
  BY <1>2, <1>3, PrefixIs
<1>9. i \notin W
  BY <1>1, <1>4 DEF Kept
<1>10. /\ G2 \in [TakeSteps(p) -> SUBSET LockName] /\ G2[i] = G[i] \cup {n}
       /\ \A t \in TakeSteps(p) : t # i => G2[t] = G[t]
  BY <1>0, <1>1, <1>6, <1>8
<1>11. W2 \subseteq TakeSteps(p) /\ W \subseteq W2 /\ W2 \subseteq W \cup {i}
       /\ (i \in W2 => G2[i] = NameSet(l)) /\ (i \notin W2 => G2[i] # NameSet(l))
  BY <1>0, <1>1, <1>9, <1>10
<1>12. Kept(p, G2, W2)
  <2> SUFFICES ASSUME NEW t \in TakeSteps(p)
               PROVE  /\ \E k \in 0..Len(p[t][2]) : G2[t] = Prefix(p[t][2], k)
                      /\ t \in W2 => G2[t] = NameSet(p[t][2])
    BY DEF Kept
  <2>1. CASE t = i
    BY <2>1, <1>6, <1>7, <1>10, <1>11
  <2>2. CASE t # i
    BY <2>2, <1>1, <1>10, <1>11 DEF Kept
  <2>3. QED
    BY <2>1, <2>2
<1>13. Open(p, G2) = Open(p, G) \cup {i}
  BY <1>1, <1>10 DEF Open
<1>14. /\ i < Len(p) /\ Around(p, e, i + 1) = A \cup {i} /\ i \notin A
       /\ \A t : <<t, i>> \notin e
  BY <1>1, AroundNext
<1>15. A \subseteq W
  BY <1>1, <1>14 DEF Placed
<1>16. Nesting(p, e, G2, W2)
  BY <1>1, <1>11, <1>13, <1>15 DEF Nesting
<1>17. Open(p, G) \subseteq A \cup {i} /\ A \subseteq Open(p, G)
  BY <1>1 DEF Placed
<1>18. CASE i \notin W2
  <2>1. i2 = i
    BY <1>0, <1>18
  <2>2. Placed(p, e, i, G2, W2)
    BY <1>1, <1>11, <1>13, <1>15, <1>17, <1>18 DEF Placed
  <2>3. i \in 1..(Len(p) + 1)
    BY <1>1, <1>2
  <2>4. QED
    BY <1>1, <1>6, <1>9, <1>10, <1>11, <1>12, <1>16, <2>1, <2>2, <2>3 DEF Lived
<1>19. CASE i \in W2
  <2>1. i2 = i + 1
    BY <1>0, <1>19
  <2>2. i + 1 \in 1..Len(p) /\ i + 1 \in 1..(Len(p) + 1) /\ i + 1 # i
    BY <1>1, <1>2, <1>14
  <2>3. i + 1 \in TakeSteps(p) => G2[i + 1] # NameSet(p[i + 1][2])
    <3> SUFFICES ASSUME i + 1 \in TakeSteps(p)
                 PROVE  G2[i + 1] # NameSet(p[i + 1][2])
      OBVIOUS
    <3>1. i + 1 \notin Around(p, e, i + 1)
      BY <2>2, AroundNext
    <3>2. G2[i + 1] = {}
      BY <3>1, <1>10, <1>14, <1>17, <2>2 DEF Open
    <3>3. QED
      BY <3>2, TakesAre, SomeName
  <2>4. Placed(p, e, i + 1, G2, W2)
    <3>1. Around(p, e, i + 1) \subseteq W2
      BY <1>11, <1>14, <1>15, <1>19
    <3>2. Open(p, G2) = Around(p, e, i + 1)
      BY <1>13, <1>14, <1>17
    <3>3. QED
      BY <2>2, <2>3, <3>1, <3>2 DEF Placed
  <2>5. QED
    BY <1>1, <1>6, <1>9, <1>10, <1>11, <1>12, <1>16, <2>1, <2>2, <2>4 DEF Lived
<1>20. QED
  BY <1>18, <1>19

\* A job at a close, or on its way out, has an innermost take; at a close it is
\* the take that is closed.
LEMMA Closes ==
  ASSUME NEW p, NEW e, Nested(p, e), TakesLists(p, e),
         NEW i, NEW m, NEW G, NEW W, Lived(p, e, i, m, G, W),
         m = "unwind" \/ (m = "run" /\ p[i][1] = "close")
  PROVE  /\ \E t \in Open(p, G) : \A u \in Open(p, G) : u <= t
         /\ \A t \in Open(p, G) : m = "run" /\ (\A u \in Open(p, G) : u <= t) => <<t, i>> \in e
<1>1. Open(p, G) \subseteq 1..Len(p) /\ Len(p) \in Nat
  BY TakesAre DEF Open
<1>2. ASSUME m = "run"
      PROVE  \E t \in Open(p, G) : /\ <<t, i>> \in e
                                   /\ \A u \in Open(p, G) : u <= t
  <2>1. Placed(p, e, i, G, W) /\ i \in 1..Len(p) /\ p[i][1] = "close"
    BY <1>2 DEF Lived, Placed
  <2>2. PICK t : <<t, i>> \in e
    BY <2>1 DEF Nested
  <2>3. t \in Around(p, e, i) /\ \A u \in Around(p, e, i) : u <= t
    BY <2>1, <2>2, AroundNext
  <2>4. i \notin Open(p, G)
    BY <2>1 DEF Open, TakeSteps
  <2>5. QED
    BY <2>1, <2>2, <2>3, <2>4 DEF Placed
<1>3. Open(p, G) # {}
  BY <1>2 DEF Lived
<1>4. \E t \in Open(p, G) : \A u \in Open(p, G) : u <= t
  BY <1>1, <1>3, LastOf
<1>5. ASSUME NEW t \in Open(p, G), m = "run", \A u \in Open(p, G) : u <= t
      PROVE  <<t, i>> \in e
  <2>1. PICK v \in Open(p, G) : <<v, i>> \in e /\ \A u \in Open(p, G) : u <= v
    BY <1>2, <1>5
  <2>2. v \in Int /\ t \in Int /\ v <= t /\ t <= v
    BY <1>1, <1>5, <2>1
  <2>3. v = t
    BY <2>2
  <2>4. QED
    BY <2>1, <2>3
<1>6. QED
  BY <1>4, <1>5

\* The callback of the innermost take is over.
LEMMA Leaves ==
  ASSUME NEW p, NEW e, Nested(p, e), TakesLists(p, e),
         NEW i, NEW m, NEW G, NEW W, Lived(p, e, i, m, G, W),
         m = "unwind" \/ (m = "run" /\ p[i][1] = "close"),
         NEW t \in Open(p, G), \A u \in Open(p, G) : u <= t
  PROVE  Lived(p, e, i, m, G, W \ {t})
<1> DEFINE W2 == W \ {t}
<1>1. Open(p, G) \subseteq 1..Len(p) /\ Len(p) \in Nat
  BY TakesAre DEF Open
<1>2. Kept(p, G, W2) /\ W2 \subseteq TakeSteps(p)
  BY DEF Lived, Kept
<1>3. Nesting(p, e, G, W2)
  <2> SUFFICES ASSUME NEW u \in Open(p, G), NEW v \in Around(p, e, u)
               PROVE  v \in W2
    BY DEF Nesting
  <2>1. v < u /\ v \in 1..Len(p)
    BY TakesAre DEF Around
  <2>2. v # t
    BY <1>1, <2>1
  <2>3. v \in W
    BY DEF Lived, Nesting
  <2>4. QED
    BY <2>2, <2>3
<1>4. m = "run" => Placed(p, e, i, G, W2)
  <2> SUFFICES ASSUME m = "run"
               PROVE  Placed(p, e, i, G, W2)
    OBVIOUS
  <2>1. Placed(p, e, i, G, W)
    BY DEF Lived
  <2>2. <<t, i>> \in e
    BY Closes
  <2>3. QED
    BY <2>1, <2>2 DEF Placed
<1>5. QED
  BY <1>2, <1>3, <1>4 DEF Lived
\* The last lock n of the take t, and what is granted without it.
ReleasesName(p, G, t, n, G2) ==
  n = p[t][2][Cardinality(G[t])] /\ G2 = [G EXCEPT ![t] = @ \ {n}]

\* The last lock of the innermost take is let go; with its first one the take is
\* over.
LEMMA GivesBack ==
  ASSUME NEW p, NEW e, Nested(p, e), TakesLists(p, e),
         NEW i, NEW m, NEW G, NEW W, Lived(p, e, i, m, G, W),
         m = "unwind" \/ (m = "run" /\ p[i][1] = "close"),
         NEW t \in Open(p, G), \A u \in Open(p, G) : u <= t, t \notin W,
         NEW n, NEW G2, ReleasesName(p, G, t, n, G2)
  PROVE  /\ t \in TakeSteps(p) /\ n \in G[t]
         /\ Cardinality(G[t]) > 1 => Lived(p, e, i, m, G2, W)
         /\ ~(Cardinality(G[t]) > 1) /\ m = "run" =>
              /\ i \in 1..Len(p)
              /\ i # Len(p) => Lived(p, e, i + 1, "run", G2, W)
              /\ i = Len(p) => Lived(p, e, i + 1, "over", G2, W)
         /\ ~(Cardinality(G[t]) > 1) /\ m = "unwind" =>
              /\ Cardinality(Open(p, G)) = 1 => Lived(p, e, i, "over", G2, W)
              /\ Cardinality(Open(p, G)) # 1 => Lived(p, e, i, "unwind", G2, W)
<1> DEFINE l == p[t][2]
<1>0. n = l[Cardinality(G[t])] /\ G2 = [G EXCEPT ![t] = @ \ {n}]
  BY DEF ReleasesName
<1>1. /\ t \in TakeSteps(p) /\ G[t] # {}
      /\ G \in [TakeSteps(p) -> SUBSET LockName] /\ W \subseteq TakeSteps(p)
      /\ Kept(p, G, W) /\ Nesting(p, e, G, W) /\ i \in 1..(Len(p) + 1)
  BY DEF Lived, Open
<1>2. Listing(l) /\ Len(p) \in 1..12 /\ Open(p, G) \subseteq 1..Len(p)
  BY <1>1, TakesAre DEF Open
<1>3. PICK k \in 0..Len(l) : G[t] = Prefix(l, k)
  BY <1>1 DEF Kept
<1>4. Len(l) \in Nat
  BY <1>2, SomeName
<1>5. k > 0 /\ Cardinality(G[t]) = k
  BY <1>1, <1>2, <1>3, <1>4, PrefixIs
<1>6. n = l[k] /\ n \in G[t] /\ G[t] \ {n} = Prefix(l, k - 1)
  BY <1>0, <1>2, <1>3, <1>5, PrefixIs
<1>7. k - 1 \in 0..Len(l)
  BY <1>4, <1>5
<1>8. /\ G2 \in [TakeSteps(p) -> SUBSET LockName] /\ G2[t] = Prefix(l, k - 1)
      /\ \A u \in TakeSteps(p) : u # t => G2[u] = G[u]
  BY <1>0, <1>1, <1>6
<1>9. G2[t] = {} <=> k = 1
  BY <1>2, <1>7, <1>8, <1>5, PrefixIs
<1>10. Kept(p, G2, W)
  <2> SUFFICES ASSUME NEW u \in TakeSteps(p)
               PROVE  /\ \E j \in 0..Len(p[u][2]) : G2[u] = Prefix(p[u][2], j)
                      /\ u \in W => G2[u] = NameSet(p[u][2])
    BY DEF Kept
  <2>1. CASE u = t
    BY <2>1, <1>7, <1>8
  <2>2. CASE u # t
    BY <2>2, <1>1, <1>8 DEF Kept
  <2>3. QED
    BY <2>1, <2>2
<1>11. /\ k = 1 => Open(p, G2) = Open(p, G) \ {t}
       /\ k # 1 => Open(p, G2) = Open(p, G)
  <2>1. \A u \in TakeSteps(p) : u # t => (u \in Open(p, G2) <=> u \in Open(p, G))
    BY <1>8 DEF Open
  <2>2. t \in Open(p, G2) <=> k # 1
    BY <1>1, <1>9 DEF Open
  <2>3. Open(p, G2) \subseteq TakeSteps(p) /\ Open(p, G) \subseteq TakeSteps(p)
    BY DEF Open
  <2>4. t \in Open(p, G)
    OBVIOUS
  <2>5. ASSUME k = 1
        PROVE  Open(p, G2) = Open(p, G) \ {t}
    <3> HIDE DEF l
    <3>1. QED
      BY Zenon, <2>1, <2>2, <2>3, <2>5
  <2>6. ASSUME k # 1
        PROVE  Open(p, G2) = Open(p, G)
    <3>1. \A u \in TakeSteps(p) : u \in Open(p, G2) <=> u \in Open(p, G)
      BY <2>1, <2>2, <2>4, <2>6
    <3>2. QED
      BY <2>3, <3>1
  <2>7. QED
    BY <2>5, <2>6
<1>12. Nesting(p, e, G2, W)
  BY <1>1, <1>11 DEF Nesting
<1>13. CASE k > 1
  <2>1. Open(p, G2) = Open(p, G)
    BY <1>11, <1>13
  <2>2. Cardinality(G[t]) > 1
    BY <1>5, <1>13
  <2>3. m = "run" => Placed(p, e, i, G2, W)
    <3> SUFFICES ASSUME m = "run"
                 PROVE  Placed(p, e, i, G2, W)
      OBVIOUS
    <3>1. Placed(p, e, i, G, W) /\ i \notin TakeSteps(p)
      BY DEF Lived, TakeSteps
    <3>2. QED
      BY <2>1, <3>1 DEF Placed
  <2>4. Lived(p, e, i, m, G2, W)
    BY <1>1, <1>8, <1>10, <1>12, <2>1, <2>3 DEF Lived
  <2>5. QED
    BY <1>1, <1>6, <2>2, <2>4
<1>14. CASE k = 1
  <2>0. ~(Cardinality(G[t]) > 1)
    BY <1>5, <1>14
  <2>1. Open(p, G2) = Open(p, G) \ {t} /\ ~(Cardinality(G[t]) > 1)
    BY <1>11, <1>14, <2>0
  <2>2. CASE m = "run"
    <3>1. <<t, i>> \in e
      BY <2>2, Closes
    <3>2. Placed(p, e, i, G, W) /\ i \in 1..Len(p) /\ i \notin TakeSteps(p)
      BY <2>2 DEF Lived, Placed, TakeSteps
    <3>3. /\ Around(p, e, i + 1) = Around(p, e, i) \ {t}
          /\ \A u \in Around(p, e, i) : <<u, i>> \in e => u = t
          /\ i = Len(p) => Around(p, e, i) = {t}
      BY <3>1, <3>2, AroundNext
    <3>4. Open(p, G) = Around(p, e, i) /\ Open(p, G2) = Around(p, e, i + 1)
      BY <2>1, <3>2, <3>3 DEF Placed, Open
    <3>5. Around(p, e, i + 1) \subseteq W
      BY <3>2, <3>3 DEF Placed
    <3>6. i + 1 \in 1..(Len(p) + 1)
      BY <1>2, <3>2
    <3>7. CASE i # Len(p)
      <4>1. i + 1 \in 1..Len(p)
        BY <1>2, <3>2, <3>7
      <4>2. i + 1 \in TakeSteps(p) => G2[i + 1] # NameSet(p[i + 1][2])
        <5> SUFFICES ASSUME i + 1 \in TakeSteps(p)
                     PROVE  G2[i + 1] # NameSet(p[i + 1][2])
          OBVIOUS
        <5>1. i + 1 \notin Around(p, e, i + 1)
          BY <4>1, AroundNext
        <5>2. G2[i + 1] = {}
          BY <5>1, <3>4 DEF Open
        <5>3. QED
          BY <5>2, TakesAre, SomeName
      <4>3. Placed(p, e, i + 1, G2, W)
        BY <3>4, <3>5, <4>1, <4>2 DEF Placed
      <4>4. Lived(p, e, i + 1, "run", G2, W)
        BY <1>1, <1>8, <1>10, <1>12, <3>6, <4>3 DEF Lived
      <4>5. QED
        BY <1>1, <1>6, <2>1, <2>2, <3>2, <3>7, <4>4
    <3>8. CASE i = Len(p)
      <4>1. Open(p, G2) = {}
        BY <2>1, <3>3, <3>4, <3>8
      <4>2. Lived(p, e, i + 1, "over", G2, W)
        BY <1>1, <1>8, <1>10, <1>12, <3>6, <4>1 DEF Lived
      <4>3. QED
        BY <1>1, <1>6, <2>1, <2>2, <3>2, <3>8, <4>2
    <3>9. QED
      BY <3>7, <3>8
  <2>3. CASE m = "unwind"
    <3>1. IsFiniteSet(Open(p, G))
      <4>1. IsFiniteSet(1..Len(p))
        BY <1>2, FS_Interval
      <4>2. QED
        BY <1>2, <4>1, FS_Subset
    <3>2. Cardinality(Open(p, G)) = 1 <=> Open(p, G2) = {}
      <4>1. Cardinality(Open(p, G)) = 1 <=> \E x : Open(p, G) = {x}
        BY <3>1, FS_Singleton
      <4>2. (\E x : Open(p, G) = {x}) <=> Open(p, G) \ {t} = {}
        OBVIOUS
      <4>3. QED
        BY <2>1, <4>1, <4>2
    <3>3. Cardinality(Open(p, G)) = 1 => Lived(p, e, i, "over", G2, W)
      BY <1>1, <1>8, <1>10, <1>12, <3>2 DEF Lived
    <3>4. Cardinality(Open(p, G)) # 1 => Lived(p, e, i, "unwind", G2, W)
      BY <1>1, <1>8, <1>10, <1>12, <3>2 DEF Lived
    <3>5. QED
      BY <1>1, <1>6, <2>1, <2>3, <3>3, <3>4
  <2>4. QED
    BY <2>2, <2>3
<1>15. QED
  BY <1>5, <1>13, <1>14
-----------------------------------------------------------------------------
(* The inductive invariant. *)

Modes == {"idle", "run", "unwind", "over", "dead"}
Outcomes == {"none", "done", "refused", "failed", "notfound"}

\* The types, but for the names granted, which OwnLocks bounds.
Types ==
  /\ clustered \in BOOLEAN
  /\ at \in [Actor -> Int]
  /\ mode \in [Actor -> Modes]
  /\ outcome \in [Actor -> Outcomes]
  /\ crashes \in 0..MaxCrashes
  /\ owner \in [LockName -> Scope \cup {NobodyScope}]
  /\ live \in [LockName -> BOOLEAN]
  /\ granted \in [Scope -> SUBSET LockName]
  /\ working \subseteq Scope

\* The scopes of the programs that are not run are not used.
Unused == \A s \in Scope : s[3] # clustered => granted[s] = {} /\ s \notin working

Pairs(a) == Ends(a, clustered)
GrantsOf(a) == [i \in TakeSteps(Program(a)) |-> granted[ScopeAt(a, i)]]
WorksOf(a) == {i \in TakeSteps(Program(a)) : ScopeAt(a, i) \in working}

OwnLocks(a) == Lived(Program(a), Pairs(a), at[a], mode[a], GrantsOf(a), WorksOf(a))
Own == \A a \in Actor : OwnLocks(a)

\* What a scope has been granted is in force and its own; what is in force was
\* granted, unless its process has died.
Leased ==
  /\ \A s \in Scope : \A n \in granted[s] : live[n] /\ owner[n] = s
  /\ \A n \in LockName : live[n] =>
       /\ owner[n] \in Scope
       /\ n \in granted[owner[n]] \/ mode[ScopeActor(owner[n])] = "dead"

\* Workers start when the job they belong to spawns them, and it does so once.
Parent(w) == <<w[1], 0>>
HasSpawned(w) ==
  \E i \in 1..Len(Program(Parent(w))) :
    i < at[Parent(w)] /\ Program(Parent(w))[i][1] = "spawn"
Spawned == \A w \in Worker : mode[w] # "idle" => HasSpawned(w)

JobsInv == Types /\ Unused /\ Own /\ Leased /\ Spawned

\* Actors are pairs.
LEMMA ActorIs ==
  /\ \A a \in Actor : a = <<a[1], a[2]>> /\ a[1] \in Job
  /\ \A w \in Worker : w[2] # 0 /\ w[2] \in Shards /\ Parent(w) \in Main
  /\ \A a \in Main : a[2] = 0
  /\ \A a \in Actor : a[2] = 0 <=> a \in Main
  /\ \A a \in Actor : a \notin Main <=> a \in Worker
<1>1. \A a \in Main : a = <<a[1], a[2]>> /\ a[1] \in Job /\ a[2] = 0
  BY DEF Main
<1>2. \A w \in Worker : /\ w = <<w[1], w[2]>> /\ w[1] \in Job /\ w[2] # 0 /\ w[2] \in Shards
                        /\ Parent(w) \in Main
  BY DEF Worker, Spawning, Shards, Main, Parent
<1>3. QED
  BY <1>1, <1>2 DEF Actor

\* The scope of a take belongs to its actor and asks for its list.
LEMMA ScopeOfTake ==
  ASSUME NEW a \in Actor, NEW c \in BOOLEAN, NEW i \in TakeSteps(Programs[c][a]),
         NEW s, s = <<a[1], a[2], c, i>>
  PROVE  /\ s \in Scope /\ ScopeActor(s) = a /\ s[3] = c /\ s[4] = i
         /\ ScopeNames(s) = Programs[c][a][i][2]
         /\ ScopeNeeds[s] = NameSet(Programs[c][a][i][2])
<1>1. s[1] = a[1] /\ s[2] = a[2] /\ s[3] = c /\ s[4] = i
  OBVIOUS
<1>2. ScopeActor(s) = a
  BY <1>1, ActorIs DEF ScopeActor
<1>3. s \in Scope
  <2> DEFINE At(b, d) == {<<b[1], b[2], d, k>> : k \in TakeSteps(Programs[d][b])}
  <2>1. Scope = UNION {At(b, d) : b \in Actor, d \in BOOLEAN}
    BY DEF Scope
  <2>2. s \in At(a, c)
    OBVIOUS
  <2> HIDE DEF At
  <2>3. At(a, c) \in {At(b, d) : b \in Actor, d \in BOOLEAN}
    OBVIOUS
  <2>4. QED
    BY <2>1, <2>2, <2>3
<1>4. ScopeNames(s) = Programs[c][a][i][2]
  BY <1>1, <1>2 DEF ScopeNames
<1>5. QED
  BY <1>1, <1>2, <1>3, <1>4 DEF ScopeNeeds

\* A scope is the scope of a take.
LEMMA TakeOfScope ==
  ASSUME NEW s \in Scope
  PROVE  /\ ScopeActor(s) \in Actor /\ s[3] \in BOOLEAN
         /\ s[4] \in TakeSteps(Programs[s[3]][ScopeActor(s)])
         /\ s = <<ScopeActor(s)[1], ScopeActor(s)[2], s[3], s[4]>>
<1>1. PICK a \in Actor, c \in BOOLEAN : s \in {<<a[1], a[2], c, i>> : i \in TakeSteps(Programs[c][a])}
  BY DEF Scope
<1>2. PICK i \in TakeSteps(Programs[c][a]) : s = <<a[1], a[2], c, i>>
  BY <1>1
<1>3. s[1] = a[1] /\ s[2] = a[2] /\ s[3] = c /\ s[4] = i
  BY <1>2
<1>4. ScopeActor(s) = a
  BY <1>3, ActorIs DEF ScopeActor
<1>5. QED
  BY <1>2, <1>3, <1>4

\* The program of an actor.
LEMMA ProgramIs ==
  ASSUME NEW a \in Actor, clustered \in BOOLEAN
  PROVE  /\ Nested(Program(a), Pairs(a)) /\ TakesLists(Program(a), Pairs(a))
         /\ Guarded(a, clustered, Program(a), Pairs(a))
BY ProgramShape DEF Shape, Program, Pairs

\* The scopes of an actor in this run.
LEMMA Here ==
  ASSUME NEW a \in Actor, clustered \in BOOLEAN, NEW i \in TakeSteps(Program(a))
  PROVE  /\ ScopeAt(a, i) \in Scope /\ ScopeActor(ScopeAt(a, i)) = a
         /\ ScopeAt(a, i)[3] = clustered /\ ScopeAt(a, i)[4] = i
         /\ ScopeNames(ScopeAt(a, i)) = Program(a)[i][2]
         /\ ScopeNeeds[ScopeAt(a, i)] = NameSet(Program(a)[i][2])
         /\ GrantsOf(a)[i] = granted[ScopeAt(a, i)]
         /\ i \in WorksOf(a) <=> ScopeAt(a, i) \in working
<1>1. i \in TakeSteps(Programs[clustered][a]) /\ ScopeAt(a, i) = <<a[1], a[2], clustered, i>>
  BY DEF Program, ScopeAt
<1>2. GrantsOf(a)[i] = granted[ScopeAt(a, i)] /\ (i \in WorksOf(a) <=> ScopeAt(a, i) \in working)
  BY DEF GrantsOf, WorksOf
<1>3. QED
  BY <1>1, <1>2, ScopeOfTake DEF Program

\* A scope in use is that of a take of its actor's program.
LEMMA There ==
  ASSUME NEW s \in Scope, clustered = s[3]
  PROVE  /\ ScopeActor(s) \in Actor /\ clustered \in BOOLEAN
         /\ s[4] \in TakeSteps(Program(ScopeActor(s))) /\ s = ScopeAt(ScopeActor(s), s[4])
BY TakeOfScope DEF Program, ScopeAt

\* The takes an actor holds something at.
LEMMA OpenIs ==
  ASSUME NEW a \in Actor
  PROVE  OpenSteps(a) = Open(Program(a), GrantsOf(a))
BY DEF OpenSteps, Open, GrantsOf

\* The innermost of them.
LEMMA InnermostIs ==
  ASSUME NEW a \in Actor, NEW t \in OpenSteps(a), \A u \in OpenSteps(a) : u <= t,
         clustered \in BOOLEAN
  PROVE  Innermost(a) = ScopeAt(a, t)
<1> DEFINE last == CHOOSE i \in OpenSteps(a) : \A j \in OpenSteps(a) : j <= i
<1>1. OpenSteps(a) \subseteq 1..Len(Program(a))
  BY DEF OpenSteps, TakeSteps
<1>2. last \in OpenSteps(a) /\ \A j \in OpenSteps(a) : j <= last
  OBVIOUS
<1>3. last <= t /\ t <= last /\ last \in Int /\ t \in Int
  BY <1>1, <1>2
<1>4. last = t
  BY <1>3
<1>5. QED
  BY <1>4 DEF Innermost

\* Distinct takes have distinct scopes.
LEMMA ScopesDiffer ==
  ASSUME NEW a \in Actor, NEW b \in Actor, NEW i, NEW j, ScopeAt(a, i) = ScopeAt(b, j)
  PROVE  a = b /\ i = j
<1>1. a[1] = b[1] /\ a[2] = b[2] /\ i = j
  BY DEF ScopeAt
<1>2. QED
  BY <1>1, ActorIs
\* The programs do not change.
LEMMA SameProgram ==
  ASSUME clustered' = clustered
  PROVE  /\ \A a : Program(a)' = Program(a) /\ Pairs(a)' = Pairs(a)
         /\ \A a, i : ScopeAt(a, i)' = ScopeAt(a, i)
BY DEF Program, Pairs, ScopeAt

\* What an actor has been granted, after a step.
LEMMA GrantsAfter ==
  ASSUME NEW a \in Actor, clustered \in BOOLEAN, clustered' = clustered,
         NEW G, NEW W, G \in [TakeSteps(Program(a)) -> SUBSET LockName], W \subseteq TakeSteps(Program(a)),
         \A i \in TakeSteps(Program(a)) :
           granted'[ScopeAt(a, i)] = G[i] /\ (ScopeAt(a, i) \in working' <=> i \in W)
  PROVE  /\ GrantsOf(a)' = G /\ WorksOf(a)' = W
         /\ Lived(Program(a), Pairs(a), at'[a], mode'[a], G, W) => OwnLocks(a)'
<1>1. Program(a)' = Program(a) /\ Pairs(a)' = Pairs(a) /\ \A i : ScopeAt(a, i)' = ScopeAt(a, i)
  BY SameProgram
<1>2. GrantsOf(a)' = [i \in TakeSteps(Program(a)) |-> granted'[ScopeAt(a, i)]]
  BY <1>1 DEF GrantsOf
<1>3. WorksOf(a)' = {i \in TakeSteps(Program(a)) : ScopeAt(a, i) \in working'}
  BY <1>1 DEF WorksOf
<1>4. GrantsOf(a)' = G
  BY <1>2
<1>5. WorksOf(a)' = W
  BY <1>3
<1>6. QED
  BY <1>1, <1>4, <1>5 DEF OwnLocks

\* An actor no step touches.
LEMMA Frame ==
  ASSUME NEW a \in Actor, OwnLocks(a), clustered \in BOOLEAN, clustered' = clustered,
         at'[a] = at[a], mode'[a] = mode[a],
         \A i \in TakeSteps(Program(a)) :
           /\ granted'[ScopeAt(a, i)] = granted[ScopeAt(a, i)]
           /\ ScopeAt(a, i) \in working' <=> ScopeAt(a, i) \in working
  PROVE  OwnLocks(a)'
<1>1. /\ GrantsOf(a) \in [TakeSteps(Program(a)) -> SUBSET LockName]
      /\ WorksOf(a) \subseteq TakeSteps(Program(a))
      /\ Lived(Program(a), Pairs(a), at'[a], mode'[a], GrantsOf(a), WorksOf(a))
  BY DEF OwnLocks, Lived
<1>2. \A i \in TakeSteps(Program(a)) :
        granted'[ScopeAt(a, i)] = GrantsOf(a)[i] /\ (ScopeAt(a, i) \in working' <=> i \in WorksOf(a))
  BY DEF GrantsOf, WorksOf
<1>3. QED
  BY <1>1, <1>2, GrantsAfter

\* A step of some actors, M, leaves the others what they have.
LEMMA SomeMove ==
  ASSUME Types, Unused, Own, Spawned, NEW M, clustered' = clustered, Types',
         \A b \in Actor : b \notin M => at'[b] = at[b] /\ mode'[b] = mode[b],
         \A s \in Scope : ScopeActor(s) \notin M \/ s[3] # clustered =>
           granted'[s] = granted[s] /\ (s \in working' <=> s \in working),
         \A b \in Actor : b \in M => OwnLocks(b)' /\ at[b] <= at'[b],
         \A w \in Worker : w \in M /\ mode[w] = "idle" => mode'[w] = "idle" \/ HasSpawned(w)'
  PROVE  Unused' /\ Own' /\ Spawned'
<1>1. clustered \in BOOLEAN /\ at \in [Actor -> Int] /\ at' \in [Actor -> Int]
  BY DEF Types
<1>2. Unused'
  BY DEF Unused
<1>3. Own'
  <2> SUFFICES ASSUME NEW b \in Actor
               PROVE  OwnLocks(b)'
    BY DEF Own
  <2>1. CASE b \in M
    BY <2>1
  <2>2. CASE b \notin M
    <3>1. at'[b] = at[b] /\ mode'[b] = mode[b] /\ OwnLocks(b)
      BY <2>2 DEF Own
    <3>2. ASSUME NEW i \in TakeSteps(Program(b))
          PROVE  /\ granted'[ScopeAt(b, i)] = granted[ScopeAt(b, i)]
                 /\ ScopeAt(b, i) \in working' <=> ScopeAt(b, i) \in working
      <4>1. ScopeAt(b, i) \in Scope /\ ScopeActor(ScopeAt(b, i)) = b
        BY <1>1, Here
      <4>2. QED
        BY <2>2, <4>1
    <3>3. QED
      BY <1>1, <3>1, <3>2, Frame
  <2>3. QED
    BY <2>1, <2>2
<1>4. \A b \in Actor : at[b] <= at'[b] /\ at[b] \in Int /\ at'[b] \in Int
  BY <1>1
<1>5. Spawned'
  <2> SUFFICES ASSUME NEW w \in Worker, mode'[w] # "idle", ~HasSpawned(w)'
               PROVE  FALSE
    BY DEF Spawned
  <2>1. w \in Actor /\ Parent(w) \in Actor
    BY ActorIs DEF Actor
  <2>2. mode[w] # "idle"
    BY <2>1
  <2>3. PICK i \in 1..Len(Program(Parent(w))) :
          i < at[Parent(w)] /\ Program(Parent(w))[i][1] = "spawn"
    BY <2>2 DEF Spawned, HasSpawned
  <2>4. Len(Program(Parent(w))) \in 1..12
    BY <1>1, <2>1, ProgramIs DEF Nested
  <2>5. i < at'[Parent(w)]
    BY <1>4, <2>1, <2>3, <2>4
  <2>6. Program(Parent(w))' = Program(Parent(w))
    BY SameProgram
  <2>7. HasSpawned(w)'
    BY <2>3, <2>5, <2>6 DEF HasSpawned, Parent
  <2>8. QED
    BY <2>7
<1>6. QED
  BY <1>2, <1>3, <1>5

\* A step without locks keeps the leases, if the dead stay dead.
LEMMA LeasesStay ==
  ASSUME Leased, jobLocks' = jobLocks,
         \A s \in Scope : mode[ScopeActor(s)] = "dead" => mode'[ScopeActor(s)] = "dead"
  PROVE  Leased'
BY DEF Leased, jobLocks

\* A step of one job that leaves its locks alone.
LEMMA OneSteps ==
  ASSUME JobsInv, NEW a \in Actor, NEW i, NEW m,
         clustered' = clustered, jobLocks' = jobLocks, crashes' = crashes,
         at' = [at EXCEPT ![a] = i], mode' = [mode EXCEPT ![a] = m], outcome' \in [Actor -> Outcomes],
         Lived(Program(a), Pairs(a), i, m, GrantsOf(a), WorksOf(a)),
         at[a] <= i, mode[a] # "dead", mode[a] = "idle" => a \in Main
  PROVE  JobsInv'
<1>1. Types /\ Unused /\ Own /\ Leased /\ Spawned /\ clustered \in BOOLEAN
  BY DEF JobsInv, Types
<1>2. i \in Int /\ m \in Modes
  <2>1. i \in 1..(Len(Program(a)) + 1) /\ m \in Modes
    BY DEF Lived, Modes
  <2>2. QED
    BY <2>1
<1>3. Types'
  BY <1>1, <1>2 DEF Types, jobLocks
<1>4. /\ at'[a] = i /\ mode'[a] = m
      /\ \A b \in Actor : b # a => at'[b] = at[b] /\ mode'[b] = mode[b]
  BY <1>1 DEF Types
<1>5. OwnLocks(a)'
  <2>1. \A k \in TakeSteps(Program(a)) :
          /\ granted'[ScopeAt(a, k)] = GrantsOf(a)[k]
          /\ ScopeAt(a, k) \in working' <=> k \in WorksOf(a)
    BY DEF GrantsOf, WorksOf, jobLocks
  <2>2. /\ GrantsOf(a) \in [TakeSteps(Program(a)) -> SUBSET LockName]
        /\ WorksOf(a) \subseteq TakeSteps(Program(a))
    BY DEF Lived
  <2>3. Lived(Program(a), Pairs(a), at'[a], mode'[a], GrantsOf(a), WorksOf(a))
    BY <1>4
  <2>4. QED
    BY <1>1, <2>1, <2>2, <2>3, GrantsAfter
<1>6. Leased'
  <2>1. \A s \in Scope : ScopeActor(s) \in Actor
    BY TakeOfScope
  <2>2. QED
    BY <1>1, <1>4, <2>1, LeasesStay
<1>7. Unused' /\ Own' /\ Spawned'
  <2> DEFINE M == {a}
  <2>1. \A b \in Actor : b \notin M => at'[b] = at[b] /\ mode'[b] = mode[b]
    BY <1>4
  <2>2. \A s \in Scope : ScopeActor(s) \notin M \/ s[3] # clustered =>
          granted'[s] = granted[s] /\ (s \in working' <=> s \in working)
    BY DEF jobLocks
  <2>3. \A b \in Actor : b \in M => OwnLocks(b)' /\ at[b] <= at'[b]
    BY <1>4, <1>5
  <2>4. \A w \in Worker : w \in M /\ mode[w] = "idle" => mode'[w] = "idle" \/ HasSpawned(w)'
    BY ActorIs DEF Actor
  <2> HIDE DEF M
  <2>5. QED
    BY <1>1, <1>3, <2>1, <2>2, <2>3, <2>4, SomeMove
<1>8. QED
  BY <1>3, <1>6, <1>7 DEF JobsInv
\* What the invariant says of one actor.
LEMMA OwnFacts ==
  ASSUME JobsInv, NEW a \in Actor
  PROVE  /\ clustered \in BOOLEAN /\ mode[a] \in Modes /\ at[a] \in Int
         /\ Nested(Program(a), Pairs(a)) /\ TakesLists(Program(a), Pairs(a))
         /\ Guarded(a, clustered, Program(a), Pairs(a))
         /\ Lived(Program(a), Pairs(a), at[a], mode[a], GrantsOf(a), WorksOf(a))
         /\ OpenSteps(a) = Open(Program(a), GrantsOf(a))
         /\ at = [at EXCEPT ![a] = at[a]] /\ mode = [mode EXCEPT ![a] = mode[a]]
<1>1. clustered \in BOOLEAN /\ at \in [Actor -> Int] /\ mode \in [Actor -> Modes]
  BY DEF JobsInv, Types
<1>2. Lived(Program(a), Pairs(a), at[a], mode[a], GrantsOf(a), WorksOf(a))
  BY DEF JobsInv, Own, OwnLocks
<1>3. at = [at EXCEPT ![a] = at[a]] /\ mode = [mode EXCEPT ![a] = mode[a]]
  BY <1>1
<1>4. QED
  BY <1>1, <1>2, <1>3, ProgramIs, OpenIs

\* An actor that does something is at a step of its program.
LEMMA DoesIs ==
  ASSUME JobsInv, NEW a \in Actor, NEW op, Does(a, op)
  PROVE  mode[a] = "run" /\ at[a] \in 1..Len(Program(a)) /\ Program(a)[at[a]][1] = op
<1>1. mode[a] = "run" /\ at[a] \in 1..Len(Program(a)) /\ Len(Program(a)) \in 1..12
  BY OwnFacts, TakesAre DEF Does, Lived, Placed
<1>2. at[a] <= Len(Program(a))
  BY <1>1
<1>3. QED
  BY <1>1, <1>2 DEF Does, Step

\* The way out keeps the invariant.
LEMMA Unwinding ==
  ASSUME JobsInv, NEW a \in Actor, mode[a] = "run", NEW why \in Outcomes, Unwind(a, why),
         UNCHANGED <<clustered, at, crashes, jobLocks>>
  PROVE  JobsInv'
<1> DEFINE m == IF OpenSteps(a) = {} THEN "over" ELSE "unwind"
<1>1. mode' = [mode EXCEPT ![a] = m] /\ outcome' = [outcome EXCEPT ![a] = why]
  BY DEF Unwind
<1>2. outcome' \in [Actor -> Outcomes]
  BY <1>1 DEF JobsInv, Types
<1>3. Lived(Program(a), Pairs(a), at[a], m, GrantsOf(a), WorksOf(a))
  BY OwnFacts, WayOut
<1>4. at' = [at EXCEPT ![a] = at[a]] /\ at[a] <= at[a]
  BY OwnFacts
<1> HIDE DEF m
<1>5. QED
  BY <1>1, <1>2, <1>3, <1>4, OneSteps

\* Going on from a step without locks keeps the invariant.
LEMMA Proceeding ==
  ASSUME JobsInv, NEW a \in Actor, NEW op, Does(a, op), op \notin {"take", "close"}, Proceed(a),
         UNCHANGED <<clustered, crashes, jobLocks>>
  PROVE  JobsInv'
<1>1. mode[a] = "run" /\ at[a] \in 1..Len(Program(a)) /\ Program(a)[at[a]][1] = op
  BY DoesIs
<1>2. at[a] < Len(Program(a)) /\ Lived(Program(a), Pairs(a), at[a] + 1, "run", GrantsOf(a), WorksOf(a))
  BY <1>1, OwnFacts, MovesOn
<1>3. Len(Program(a)) \in 1..12
  BY OwnFacts, TakesAre
<1>4. at[a] # Len(Program(a))
  BY <1>1, <1>2, <1>3
<1>5. at' = [at EXCEPT ![a] = at[a] + 1] /\ mode' = mode /\ outcome' = outcome
  BY <1>4 DEF Proceed
<1>6. mode' = [mode EXCEPT ![a] = "run"]
  BY <1>1, <1>5, OwnFacts
<1>7. outcome' \in [Actor -> Outcomes]
  BY <1>5 DEF JobsInv, Types
<1>8. at[a] <= at[a] + 1
  BY <1>1
<1>9. QED
  BY <1>1, <1>2, <1>5, <1>6, <1>7, <1>8, OneSteps

\* The steps of a job that take and release nothing.
LEMMA QuietSteps ==
  ASSUME JobsInv, NEW a \in Actor,
         \/ StartJob(a) \/ RefuseLock(a) \/ FinishStage(a) \/ FindLot(a)
         \/ LookAtLocks(a) \/ JoinWorkers(a)
  PROVE  JobsInv'
<1>1. CASE StartJob(a)
  <2>1. /\ a \in Main /\ mode[a] = "idle" /\ mode' = [mode EXCEPT ![a] = "run"]
        /\ UNCHANGED <<clustered, at, outcome, crashes, jobLocks>>
    BY <1>1 DEF StartJob
  <2>2. Lived(Program(a), Pairs(a), at[a], "run", GrantsOf(a), WorksOf(a))
    BY <2>1, OwnFacts, Starts
  <2>3. at' = [at EXCEPT ![a] = at[a]] /\ at[a] <= at[a]
    BY <2>1, OwnFacts
  <2>4. outcome' \in [Actor -> Outcomes]
    BY <2>1 DEF JobsInv, Types
  <2>5. QED
    BY <2>1, <2>2, <2>3, <2>4, OneSteps
<1>2. CASE RefuseLock(a)
  BY <1>2, DoesIs, Unwinding DEF RefuseLock, Outcomes
<1>3. CASE FinishStage(a)
  <2>1. Does(a, "work") /\ mode[a] = "run" /\ UNCHANGED <<clustered, crashes, jobLocks>>
    BY <1>3, DoesIs DEF FinishStage
  <2>2. CASE Proceed(a)
    BY <2>1, <2>2, Proceeding
  <2>3. CASE Unwind(a, "failed") /\ UNCHANGED at
    BY <2>1, <2>3, Unwinding DEF Outcomes
  <2>4. QED
    BY <1>3, <2>2, <2>3 DEF FinishStage
<1>4. CASE FindLot(a)
  <2>1. Does(a, "find") /\ mode[a] = "run" /\ UNCHANGED <<clustered, crashes, jobLocks>>
    BY <1>4, DoesIs DEF FindLot
  <2>2. CASE Proceed(a)
    BY <2>1, <2>2, Proceeding
  <2>3. CASE Unwind(a, "notfound") /\ UNCHANGED at
    BY <2>1, <2>3, Unwinding DEF Outcomes
  <2>4. QED
    BY <1>4, <2>2, <2>3 DEF FindLot
<1>5. CASE LookAtLocks(a)
  <2>1. Does(a, "look") /\ mode[a] = "run" /\ UNCHANGED <<clustered, crashes, jobLocks>>
    BY <1>5, DoesIs DEF LookAtLocks
  <2>2. CASE Proceed(a)
    BY <2>1, <2>2, Proceeding
  <2>3. CASE Unwind(a, "refused") /\ UNCHANGED at
    BY <2>1, <2>3, Unwinding DEF Outcomes
  <2>4. QED
    BY <1>5, <2>2, <2>3 DEF LookAtLocks
<1>6. CASE JoinWorkers(a)
  <2>1. Does(a, "join") /\ mode[a] = "run" /\ UNCHANGED <<clustered, crashes, jobLocks>>
    BY <1>6, DoesIs DEF JoinWorkers
  <2>2. CASE Proceed(a)
    BY <2>1, <2>2, Proceeding
  <2>3. CASE Unwind(a, "failed") /\ UNCHANGED at
    BY <2>1, <2>3, Unwinding DEF Outcomes
  <2>4. QED
    BY <1>6, <2>2, <2>3 DEF JoinWorkers
<1>7. QED
  BY <1>1, <1>2, <1>3, <1>4, <1>5, <1>6
\* A job that spawns its workers.
LEMMA Spawns ==
  ASSUME JobsInv, NEW a \in Actor, SpawnWorkers(a)
  PROVE  JobsInv'
<1>1. /\ mode[a] = "run" /\ at[a] \in 1..Len(Program(a)) /\ Program(a)[at[a]][1] = "spawn"
      /\ mode' = [b \in Actor |-> IF b \in WorkersOf(a) THEN "run" ELSE mode[b]]
      /\ at' = [at EXCEPT ![a] = @ + 1]
      /\ UNCHANGED <<clustered, outcome, crashes, jobLocks>>
  BY DoesIs DEF SpawnWorkers
<1>2. Types /\ Unused /\ Own /\ Leased /\ Spawned /\ clustered \in BOOLEAN
  BY DEF JobsInv, Types
<1>3. a[2] = 0 /\ \A i \in 1..Len(Program(a)) : Program(a)[i][1] = "spawn" => i = at[a]
  BY <1>1, OwnFacts DEF Guarded
<1>4. a \in Main /\ a \notin Worker /\ a = <<a[1], 0>>
  BY <1>3, ActorIs
<1>5. WorkersOf(a) \subseteq Worker /\ a \notin WorkersOf(a) /\ \A w \in WorkersOf(a) : Parent(w) = a
  BY <1>4 DEF WorkersOf, Parent
<1>6. /\ mode'[a] = "run" /\ at'[a] = at[a] + 1 /\ at[a] < at'[a] /\ at[a] \in Int
      /\ \A b \in Actor : b # a => at'[b] = at[b]
      /\ \A b \in Actor : b \notin WorkersOf(a) => mode'[b] = mode[b]
      /\ \A b \in Actor : b \in WorkersOf(a) => mode'[b] = "run"
  BY <1>1, <1>2, <1>5 DEF Types
<1>7. Types'
  <2>1. mode' \in [Actor -> Modes]
    BY <1>1, <1>2 DEF Types, Modes
  <2>2. at' \in [Actor -> Int]
    BY <1>1, <1>2, <1>6 DEF Types
  <2>3. QED
    BY <1>1, <1>2, <2>1, <2>2 DEF Types, jobLocks
<1>8. ASSUME NEW w \in WorkersOf(a)
      PROVE  mode[w] = "idle" /\ HasSpawned(w)'
  <2>1. w \in Worker /\ Parent(w) = a
    BY <1>5
  <2>2. mode[w] = "idle"
    <3>1. SUFFICES ASSUME HasSpawned(w)
                   PROVE  FALSE
      BY <1>2, <2>1 DEF Spawned
    <3>2. PICK i \in 1..Len(Program(a)) : i < at[a] /\ Program(a)[i][1] = "spawn"
      BY <2>1, <3>1 DEF HasSpawned
    <3>3. i = at[a] /\ at[a] < at[a]
      BY <1>3, <3>2
    <3>4. QED
      BY <1>6, <3>3
  <2>3. Program(a)' = Program(a) /\ Parent(w)' = a
    BY <1>1, <2>1, SameProgram DEF Parent
  <2>4. HasSpawned(w)'
    BY <1>1, <1>6, <2>3 DEF HasSpawned
  <2>5. QED
    BY <2>2, <2>4
<1>9. ASSUME NEW b \in Actor, b = a \/ b \in WorkersOf(a)
      PROVE  OwnLocks(b)' /\ at[b] <= at'[b]
  <2>1. \A k \in TakeSteps(Program(b)) :
          /\ granted'[ScopeAt(b, k)] = GrantsOf(b)[k]
          /\ ScopeAt(b, k) \in working' <=> k \in WorksOf(b)
    BY <1>1 DEF GrantsOf, WorksOf, jobLocks
  <2>2. /\ GrantsOf(b) \in [TakeSteps(Program(b)) -> SUBSET LockName]
        /\ WorksOf(b) \subseteq TakeSteps(Program(b))
    BY OwnFacts DEF Lived
  <2>3. Lived(Program(b), Pairs(b), at'[b], mode'[b], GrantsOf(b), WorksOf(b))
    <3>1. CASE b = a
      <4>1. Lived(Program(a), Pairs(a), at[a] + 1, "run", GrantsOf(a), WorksOf(a))
        BY <1>1, OwnFacts, MovesOn
      <4>2. QED
        BY <1>6, <3>1, <4>1
    <3>2. CASE b \in WorkersOf(a)
      <4>1. Lived(Program(b), Pairs(b), at[b], "run", GrantsOf(b), WorksOf(b))
        BY <1>8, <3>2, OwnFacts, Starts
      <4>2. at'[b] = at[b] /\ mode'[b] = "run"
        BY <1>5, <1>6, <3>2
      <4>3. QED
        BY <4>1, <4>2
    <3>3. QED
      BY <1>9, <3>1, <3>2
  <2>4. OwnLocks(b)'
    BY <1>1, <1>2, <2>1, <2>2, <2>3, GrantsAfter
  <2>5. at[b] <= at'[b]
    BY <1>6, OwnFacts
  <2>6. QED
    BY <2>4, <2>5
<1>10. Leased'
  <2>1. \A s \in Scope : ScopeActor(s) \in Actor
    BY TakeOfScope
  <2>2. \A s \in Scope : mode[ScopeActor(s)] = "dead" => mode'[ScopeActor(s)] = "dead"
    BY <1>6, <1>8, <2>1
  <2>3. QED
    BY <1>1, <1>2, <2>2, LeasesStay
<1>11. Unused' /\ Own' /\ Spawned'
  <2> DEFINE M == {a} \cup WorkersOf(a)
  <2>1. \A b \in Actor : b \notin M => at'[b] = at[b] /\ mode'[b] = mode[b]
    BY <1>6
  <2>2. \A s \in Scope : ScopeActor(s) \notin M \/ s[3] # clustered =>
          granted'[s] = granted[s] /\ (s \in working' <=> s \in working)
    BY <1>1 DEF jobLocks
  <2>3. \A b \in Actor : b \in M => OwnLocks(b)' /\ at[b] <= at'[b]
    BY <1>9
  <2>4. \A w \in Worker : w \in M /\ mode[w] = "idle" => mode'[w] = "idle" \/ HasSpawned(w)'
    BY <1>4, <1>8
  <2> HIDE DEF M
  <2>5. QED
    BY <1>1, <1>2, <1>7, <2>1, <2>2, <2>3, <2>4, SomeMove
<1>12. QED
  BY <1>7, <1>10, <1>11 DEF JobsInv

\* A step leaves actor a the names g at its take t, and works at W; nobody else
\* is granted or releases anything.
Touches(a, t, g, G, W) ==
  /\ t \in TakeSteps(Program(a)) /\ g \in SUBSET LockName
  /\ granted' = [granted EXCEPT ![ScopeAt(a, t)] = g] /\ working' \subseteq Scope
  /\ \A s \in Scope : s # ScopeAt(a, t) => (s \in working' <=> s \in working)
  /\ G[t] = g /\ \A k \in TakeSteps(Program(a)) : k # t => G[k] = GrantsOf(a)[k]
  /\ \A k \in TakeSteps(Program(a)) : k # t => (k \in W <=> k \in WorksOf(a))
  /\ t \in W <=> ScopeAt(a, t) \in working'

\* A step of one actor that grants or releases names of one of its takes.
LEMMA LockStep ==
  ASSUME JobsInv, NEW a \in Actor, NEW t, NEW g, NEW G, NEW W, Touches(a, t, g, G, W),
         NEW i, NEW m, Lived(Program(a), Pairs(a), i, m, G, W), at[a] <= i, mode[a] # "idle",
         at' = [at EXCEPT ![a] = i], mode' = [mode EXCEPT ![a] = m], outcome' \in [Actor -> Outcomes],
         clustered' = clustered, crashes' = crashes,
         owner' \in [LockName -> Scope \cup {NobodyScope}], live' \in [LockName -> BOOLEAN],
         Leased'
  PROVE  JobsInv'
<1>0. /\ t \in TakeSteps(Program(a)) /\ g \in SUBSET LockName
      /\ granted' = [granted EXCEPT ![ScopeAt(a, t)] = g] /\ working' \subseteq Scope
      /\ \A s \in Scope : s # ScopeAt(a, t) => (s \in working' <=> s \in working)
      /\ G[t] = g /\ \A k \in TakeSteps(Program(a)) : k # t => G[k] = GrantsOf(a)[k]
      /\ \A k \in TakeSteps(Program(a)) : k # t => (k \in W <=> k \in WorksOf(a))
      /\ t \in W <=> ScopeAt(a, t) \in working'
  BY DEF Touches
<1>1. Types /\ Unused /\ Own /\ Spawned /\ clustered \in BOOLEAN
  BY DEF JobsInv, Types
<1>2. ScopeAt(a, t) \in Scope /\ ScopeActor(ScopeAt(a, t)) = a /\ ScopeAt(a, t)[3] = clustered
  BY <1>0, <1>1, Here
<1>3. /\ granted' \in [Scope -> SUBSET LockName] /\ granted'[ScopeAt(a, t)] = g
      /\ \A s \in Scope : s # ScopeAt(a, t) => granted'[s] = granted[s]
  BY <1>0, <1>1, <1>2 DEF Types
<1>4. i \in Int /\ m \in Modes
  <2>1. i \in 1..(Len(Program(a)) + 1) /\ m \in Modes
    BY DEF Lived, Modes
  <2>2. QED
    BY <2>1
<1>5. /\ at'[a] = i /\ mode'[a] = m /\ at' \in [Actor -> Int] /\ mode' \in [Actor -> Modes]
      /\ \A b \in Actor : b # a => at'[b] = at[b] /\ mode'[b] = mode[b]
  BY <1>1, <1>4 DEF Types
<1>6. Types'
  BY <1>0, <1>1, <1>3, <1>5 DEF Types
<1>7. OwnLocks(a)'
  <2>1. G \in [TakeSteps(Program(a)) -> SUBSET LockName] /\ W \subseteq TakeSteps(Program(a))
    BY DEF Lived
  <2>2. ASSUME NEW k \in TakeSteps(Program(a))
        PROVE  granted'[ScopeAt(a, k)] = G[k] /\ (ScopeAt(a, k) \in working' <=> k \in W)
    <3>1. /\ ScopeAt(a, k) \in Scope /\ GrantsOf(a)[k] = granted[ScopeAt(a, k)]
          /\ k \in WorksOf(a) <=> ScopeAt(a, k) \in working
      BY <1>1, Here
    <3>2. CASE k = t
      <4>1. QED
        BY <1>0, <1>3, <3>2
    <3>3. CASE k # t
      <4>1. ScopeAt(a, k) # ScopeAt(a, t)
        BY <3>3, ScopesDiffer
      <4>2. G[k] = GrantsOf(a)[k]
        BY <1>0, <3>3
      <4>3. QED
        BY <1>0, <1>3, <3>1, <3>3, <4>1, <4>2
    <3>4. QED
      BY <3>2, <3>3
  <2>3. Lived(Program(a), Pairs(a), at'[a], mode'[a], G, W)
    BY <1>5
  <2>4. clustered' = clustered
    OBVIOUS
  <2>5. \A k \in TakeSteps(Program(a)) :
          granted'[ScopeAt(a, k)] = G[k] /\ (ScopeAt(a, k) \in working' <=> k \in W)
    BY <2>2
  <2>6. Lived(Program(a), Pairs(a), at'[a], mode'[a], G, W) => OwnLocks(a)'
    BY <1>1, <2>1, <2>4, <2>5, GrantsAfter
  <2>7. QED
    BY <2>3, <2>6
<1>8. Unused' /\ Own' /\ Spawned'
  <2> DEFINE M == {a}
  <2>1. \A b \in Actor : b \notin M => at'[b] = at[b] /\ mode'[b] = mode[b]
    BY <1>5
  <2>2. \A s \in Scope : ScopeActor(s) \notin M \/ s[3] # clustered =>
          granted'[s] = granted[s] /\ (s \in working' <=> s \in working)
    BY <1>0, <1>2, <1>3
  <2>3. \A b \in Actor : b \in M => OwnLocks(b)' /\ at[b] <= at'[b]
    BY <1>5, <1>7
  <2>4. \A w \in Worker : w \in M /\ mode[w] = "idle" => mode'[w] = "idle" \/ HasSpawned(w)'
    OBVIOUS
  <2> HIDE DEF M
  <2>5. QED
    BY <1>1, <1>6, <2>1, <2>2, <2>3, <2>4, SomeMove
<1>9. QED
  BY <1>6, <1>8 DEF JobsInv
\* A job that takes the next lock of its list.
LEMMA Taking ==
  ASSUME JobsInv, NEW a \in Actor, TakeLock(a)
  PROVE  JobsInv'
<1> DEFINE p == Program(a)
           i == at[a]
           s == ScopeAt(a, i)
           n == p[i][2][Cardinality(GrantsOf(a)[i]) + 1]
           g == granted[s] \cup {n}
           G == [GrantsOf(a) EXCEPT ![i] = @ \cup {n}]
           W == IF GrantsOf(a)[i] \cup {n} = NameSet(p[i][2]) THEN WorksOf(a) \cup {i} ELSE WorksOf(a)
           j == IF i \in W THEN i + 1 ELSE i
<1>1. mode[a] = "run" /\ i \in 1..Len(p) /\ p[i][1] = "take" /\ i \in TakeSteps(p)
  BY DoesIs DEF TakeLock, TakeSteps
<1>2. /\ Types /\ Unused /\ Leased /\ clustered \in BOOLEAN
      /\ clustered' = clustered /\ crashes' = crashes /\ mode' = mode /\ outcome' = outcome
  BY DEF JobsInv, Types, TakeLock
<1>3. /\ s \in Scope /\ ScopeActor(s) = a /\ s = HereScope(a)
      /\ ScopeNames(s) = p[i][2] /\ ScopeNeeds[s] = NameSet(p[i][2])
      /\ GrantsOf(a)[i] = granted[s] /\ (i \in WorksOf(a) <=> s \in working)
  BY <1>1, <1>2, Here DEF HereScope
<1>4. NextName(s) = n
  BY <1>3 DEF NextName
<1>5. /\ i \notin WorksOf(a) /\ n \in NameSet(p[i][2]) \ GrantsOf(a)[i]
      /\ Lived(p, Pairs(a), j, "run", G, W)
  <2>1. Nested(p, Pairs(a)) /\ TakesLists(p, Pairs(a)) /\ Lived(p, Pairs(a), i, "run", GrantsOf(a), WorksOf(a))
    BY <1>1, OwnFacts
  <2>2. TakesName(p, i, GrantsOf(a), WorksOf(a), n, G, W, j)
    BY DEF TakesName
  <2> HIDE DEF p, i, n, G, W, j
  <2>3. QED
    BY <1>1, <2>1, <2>2, TakesNext
<1>6. /\ s \notin working /\ ~live[n]
      /\ owner' = [owner EXCEPT ![n] = s] /\ live' = [live EXCEPT ![n] = TRUE]
      /\ granted' = [granted EXCEPT ![s] = g]
      /\ working' = IF g = ScopeNeeds[s] THEN working \cup {s} ELSE working
      /\ at' = [at EXCEPT ![a] = IF s \in working' THEN i + 1 ELSE i]
  BY <1>3, <1>4 DEF TakeLock, Leases!Grant
<1>7. n \in LockName /\ g \in SUBSET LockName
  <2>1. Listing(p[i][2])
    BY <1>1, <1>2, ProgramIs, TakesAre
  <2>2. NameSet(p[i][2]) \subseteq LockName
    <3>1. Len(p[i][2]) \in Nat
      BY <2>1, SomeName
    <3>2. Len(p[i][2]) \in 0..Len(p[i][2])
      BY <3>1
    <3>3. QED
      BY <2>1, <3>2, PrefixIs
  <2>3. granted[s] \subseteq LockName
    BY SMTT(60), <1>2, <1>3 DEF Types
  <2>4. n \in LockName
    BY <1>5, <2>2
  <2>5. QED
    BY <2>3, <2>4
<1> HIDE DEF n
<1>8. owner' \in [LockName -> Scope \cup {NobodyScope}] /\ live' \in [LockName -> BOOLEAN]
  BY <1>2, <1>3, <1>6, <1>7 DEF Types
<1>9. /\ granted'[s] = g /\ \A u \in Scope : u # s => granted'[u] = granted[u]
      /\ owner'[n] = s /\ live'[n] = TRUE
      /\ \A x \in LockName : x # n => owner'[x] = owner[x] /\ live'[x] = live[x]
  BY <1>2, <1>3, <1>6, <1>7 DEF Types
<1>10. Leased'
  <2>0. \A u \in Scope : granted[u] \subseteq LockName
    BY <1>2 DEF Types
  <2>1. ASSUME NEW u \in Scope, NEW x \in granted'[u]
        PROVE  live'[x] /\ owner'[x] = u
    <3>1. CASE x = n
      <4>1. n \notin granted[u]
        BY <1>2, <1>6 DEF Leased
      <4>2. u = s
        BY <1>9, <2>1, <3>1, <4>1
      <4>3. QED
        BY <1>9, <3>1, <4>2
    <3>2. CASE x # n
      <4>1. x \in granted[u]
        BY <1>9, <2>1, <3>2
      <4>2. x \in LockName /\ live[x] /\ owner[x] = u
        BY <1>2, <2>0, <4>1 DEF Leased
      <4>3. QED
        BY <1>9, <3>2, <4>2
    <3>3. QED
      BY <3>1, <3>2
  <2>2. ASSUME NEW x \in LockName, live'[x]
        PROVE  /\ owner'[x] \in Scope
               /\ x \in granted'[owner'[x]] \/ mode'[ScopeActor(owner'[x])] = "dead"
    <3>1. CASE x = n
      BY <1>3, <1>9, <3>1
    <3>2. CASE x # n
      <4>1. owner'[x] = owner[x] /\ live[x]
        BY <1>9, <2>2, <3>2
      <4>2. owner[x] \in Scope /\ (x \in granted[owner[x]] \/ mode[ScopeActor(owner[x])] = "dead")
        BY <1>2, <4>1 DEF Leased
      <4>3. granted[owner[x]] \subseteq granted'[owner[x]]
        BY <1>9, <4>2
      <4>4. QED
        BY <1>2, <4>1, <4>2, <4>3
    <3>3. QED
      BY <3>1, <3>2
  <2>3. QED
    BY <2>1, <2>2 DEF Leased
<1>11. i \in W <=> s \in working'
  BY <1>3, <1>5, <1>6
<1>12. at' = [at EXCEPT ![a] = j]
  BY <1>6, <1>11
<1>13. mode' = [mode EXCEPT ![a] = "run"]
  BY <1>1, <1>2, OwnFacts
<1>14. outcome' \in [Actor -> Outcomes]
  BY <1>2 DEF Types
<1>15. G[i] = g /\ \A k \in TakeSteps(p) : k # i => G[k] = GrantsOf(a)[k]
  BY <1>1, <1>3 DEF GrantsOf
<1>16. at[a] <= j
  BY <1>1
<1>17. /\ working' \subseteq Scope /\ \A u \in Scope : u # s => (u \in working' <=> u \in working)
       /\ \A k \in TakeSteps(p) : k # i => (k \in W <=> k \in WorksOf(a))
  BY <1>2, <1>3, <1>6 DEF Types
<1>18. Touches(a, i, g, G, W)
  BY <1>1, <1>6, <1>7, <1>11, <1>15, <1>17 DEF Touches
<1>19. mode[a] # "idle"
  BY <1>1
<1> HIDE DEF G, W, j, g, p
<1>20. QED
  BY <1>2, <1>5, <1>8, <1>10, <1>12, <1>13, <1>14, <1>16, <1>18, <1>19, LockStep DEF p
\* A job that lets its innermost take go, its callback first and then the names.
LEMMA LettingGo ==
  ASSUME JobsInv, NEW a \in Actor, LetGo(a)
  PROVE  JobsInv'
<1> DEFINE p == Program(a)
           i == at[a]
           m == mode[a]
<1>1. m = "unwind" \/ (m = "run" /\ p[i][1] = "close")
  BY DoesIs DEF LetGo
<1>2. /\ Types /\ Unused /\ Leased /\ clustered \in BOOLEAN
      /\ clustered' = clustered /\ crashes' = crashes
  BY DEF JobsInv, Types, LetGo
<1>3. /\ Nested(p, Pairs(a)) /\ TakesLists(p, Pairs(a))
      /\ Lived(p, Pairs(a), i, m, GrantsOf(a), WorksOf(a))
      /\ OpenSteps(a) = Open(p, GrantsOf(a)) /\ i \in Int
      /\ at = [at EXCEPT ![a] = i] /\ mode = [mode EXCEPT ![a] = m]
  BY OwnFacts
<1>4. PICK t \in Open(p, GrantsOf(a)) : \A u \in Open(p, GrantsOf(a)) : u <= t
  <2> HIDE DEF p, i, m
  <2>1. QED
    BY <1>1, <1>3, Closes
<1> DEFINE s == ScopeAt(a, t)
<1>5. s = Innermost(a) /\ t \in TakeSteps(p)
  BY <1>2, <1>3, <1>4, InnermostIs DEF Open
<1>6. /\ s \in Scope /\ ScopeActor(s) = a
      /\ ScopeNames(s) = p[t][2] /\ ScopeNeeds[s] = NameSet(p[t][2])
      /\ GrantsOf(a)[t] = granted[s] /\ (t \in WorksOf(a) <=> s \in working)
  BY <1>2, <1>5, Here
<1>7. \A k \in TakeSteps(p) : GrantsOf(a)[k] = granted[ScopeAt(a, k)]
  BY DEF GrantsOf
<1>8. granted \in [Scope -> SUBSET LockName] /\ working \subseteq Scope /\ granted[s] \subseteq LockName
      /\ \A u \in Scope : granted[u] \subseteq LockName
  BY <1>2, <1>6 DEF Types
<1>9. CASE s \in working
  <2>1. working' = working \ {s} /\ UNCHANGED <<owner, live, granted, at, mode, outcome>>
    BY <1>5, <1>9 DEF LetGo, Leases!Leave
  <2>2. Lived(p, Pairs(a), i, m, GrantsOf(a), WorksOf(a) \ {t})
    <3> HIDE DEF p, i, m
    <3>1. QED
      BY <1>1, <1>3, <1>4, Leaves
  <2>3. Touches(a, t, granted[s], GrantsOf(a), WorksOf(a) \ {t})
    <3>1. granted' = [granted EXCEPT ![s] = granted[s]]
      BY <1>8, <2>1
    <3>2. working' \subseteq Scope /\ \A u \in Scope : u # s => (u \in working' <=> u \in working)
      BY <1>8, <2>1
    <3>3. s \notin working' /\ GrantsOf(a)[t] = granted[s] /\ granted[s] \in SUBSET LockName
      BY <1>6, <1>8, <2>1
    <3> HIDE DEF s
    <3>4. QED
      BY <1>5, <3>1, <3>2, <3>3 DEF Touches, s
  <2>4. Leased'
    BY <1>2, <2>1 DEF Leased
  <2>5. /\ owner' \in [LockName -> Scope \cup {NobodyScope}] /\ live' \in [LockName -> BOOLEAN]
        /\ outcome' \in [Actor -> Outcomes]
    BY <1>2, <2>1 DEF Types
  <2>6. at' = [at EXCEPT ![a] = i] /\ mode' = [mode EXCEPT ![a] = m] /\ at[a] <= i /\ mode[a] # "idle"
    BY <1>1, <1>3, <2>1
  <2> HIDE DEF s
  <2>7. QED
    BY <1>2, <2>2, <2>3, <2>4, <2>5, <2>6, LockStep
<1>10. CASE s \notin working
  <2> DEFINE n == p[t][2][Cardinality(GrantsOf(a)[t])]
             g == granted[s] \ {n}
             G == [GrantsOf(a) EXCEPT ![t] = @ \ {n}]
  <2>1. NextToLetGo(s) = n
    BY <1>6 DEF NextToLetGo
  <2>2. /\ granted' = [granted EXCEPT ![s] = g]
        /\ live' = [live EXCEPT ![n] = @ /\ owner[n] # s]
        /\ owner' = owner /\ working' = working
    BY <1>5, <1>10, <2>1 DEF LetGo, Leases!GiveBack
  <2>3. /\ n \in GrantsOf(a)[t]
        /\ Cardinality(GrantsOf(a)[t]) > 1 => Lived(p, Pairs(a), i, m, G, WorksOf(a))
        /\ ~(Cardinality(GrantsOf(a)[t]) > 1) /\ m = "run" =>
             /\ i \in 1..Len(p)
             /\ i # Len(p) => Lived(p, Pairs(a), i + 1, "run", G, WorksOf(a))
             /\ i = Len(p) => Lived(p, Pairs(a), i + 1, "over", G, WorksOf(a))
        /\ ~(Cardinality(GrantsOf(a)[t]) > 1) /\ m = "unwind" =>
             /\ Cardinality(Open(p, GrantsOf(a))) = 1 => Lived(p, Pairs(a), i, "over", G, WorksOf(a))
             /\ Cardinality(Open(p, GrantsOf(a))) # 1 => Lived(p, Pairs(a), i, "unwind", G, WorksOf(a))
    <3>1. ReleasesName(p, GrantsOf(a), t, n, G)
      BY DEF ReleasesName
    <3>2. t \notin WorksOf(a)
      BY <1>6, <1>10
    <3> HIDE DEF p, i, m, n, G
    <3>3. QED
      BY <1>1, <1>3, <1>4, <3>1, <3>2, GivesBack
  <2>4. n \in granted[s] /\ n \in LockName
    BY <1>6, <1>8, <2>3
  <2> HIDE DEF n
  <2>5. /\ granted'[s] = g /\ \A u \in Scope : u # s => granted'[u] = granted[u]
        /\ live'[n] = FALSE /\ \A x \in LockName : x # n => live'[x] = live[x]
        /\ live' \in [LockName -> BOOLEAN] /\ owner[n] = s
    <3>1. owner[n] = s
      BY <1>2, <1>6, <2>4 DEF Leased
    <3>2. live' = [live EXCEPT ![n] = FALSE]
      BY <2>2, <3>1
    <3>3. QED
      BY <1>2, <1>6, <1>8, <2>2, <2>4, <3>1, <3>2 DEF Types
  <2>6. Touches(a, t, g, G, WorksOf(a))
    <3>1. G[t] = g /\ \A k \in TakeSteps(p) : k # t => G[k] = GrantsOf(a)[k]
      BY <1>5, <1>6 DEF GrantsOf
    <3>2. g \in SUBSET LockName
      BY <1>8
    <3> HIDE DEF G, g
    <3>3. QED
      BY <1>5, <1>6, <1>8, <2>2, <3>1, <3>2 DEF Touches
  <2>7. ASSUME \A u \in Scope : mode[ScopeActor(u)] = "dead" => mode'[ScopeActor(u)] = "dead"
        PROVE  Leased'
    <3>1. ASSUME NEW u \in Scope, NEW x \in granted'[u]
          PROVE  live'[x] /\ owner'[x] = u
      <4>1. x \in granted[u] /\ (x # n \/ u # s)
        BY <2>5, <3>1
      <4>2. x \in LockName /\ live[x] /\ owner[x] = u
        BY <1>2, <1>8, <4>1 DEF Leased
      <4>3. x # n
        BY <2>5, <4>1, <4>2
      <4>4. QED
        BY <2>2, <2>5, <4>2, <4>3
    <3>2. ASSUME NEW x \in LockName, live'[x]
          PROVE  /\ owner'[x] \in Scope
                 /\ x \in granted'[owner'[x]] \/ mode'[ScopeActor(owner'[x])] = "dead"
      <4>1. x # n /\ live[x] /\ owner'[x] = owner[x]
        BY <2>2, <2>5, <3>2
      <4>2. owner[x] \in Scope /\ (x \in granted[owner[x]] \/ mode[ScopeActor(owner[x])] = "dead")
        BY <1>2, <4>1 DEF Leased
      <4>3. x \in granted[owner[x]] => x \in granted'[owner[x]]
        BY <2>5, <4>1, <4>2
      <4>4. QED
        BY <2>7, <4>1, <4>2, <4>3
    <3>3. QED
      BY <3>1, <3>2 DEF Leased
  <2>8. owner' \in [LockName -> Scope \cup {NobodyScope}]
    BY <1>2, <2>2 DEF Types
  <2>9. ASSUME NEW j \in Int, NEW k \in Modes, at' = [at EXCEPT ![a] = j], i <= j,
               mode' = [mode EXCEPT ![a] = k], outcome' \in [Actor -> Outcomes],
               Lived(p, Pairs(a), j, k, G, WorksOf(a))
        PROVE  JobsInv'
    <3>1. mode[a] # "dead" /\ mode[a] # "idle"
      BY <1>1
    <3>2. \A u \in Scope : mode[ScopeActor(u)] = "dead" => mode'[ScopeActor(u)] = "dead"
      <4>1. \A u \in Scope : ScopeActor(u) \in Actor
        BY TakeOfScope
      <4>2. \A b \in Actor : b # a => mode'[b] = mode[b]
        BY <1>2, <2>9 DEF Types
      <4>3. QED
        BY <3>1, <4>1, <4>2
    <3>3. Leased'
      BY <2>7, <3>2
    <3> HIDE DEF G, g, s
    <3>4. QED
      BY <1>2, <2>5, <2>6, <2>8, <2>9, <3>1, <3>3, LockStep
  <2>10. outcome \in [Actor -> Outcomes]
    BY <1>2 DEF Types
  <2>11. CASE Cardinality(granted[s]) > 1
    <3>1. at' = [at EXCEPT ![a] = i] /\ mode' = [mode EXCEPT ![a] = m] /\ outcome' = outcome
      BY <1>3, <1>5, <1>10, <2>11 DEF LetGo
    <3>2. Lived(p, Pairs(a), i, m, G, WorksOf(a))
      BY <1>6, <2>3, <2>11
    <3>3. m \in Modes /\ i <= i
      BY <1>1, <1>3 DEF Modes
    <3> HIDE DEF G
    <3>4. QED
      BY <1>3, <2>9, <2>10, <3>1, <3>2, <3>3
  <2>12. CASE ~(Cardinality(granted[s]) > 1) /\ m = "run"
    <3>1. Proceed(a)
      BY <1>5, <1>10, <2>12 DEF LetGo
    <3>2. i <= i + 1 /\ i + 1 \in Int
      BY <1>3
    <3>3. CASE i # Len(p)
      <4>1. at' = [at EXCEPT ![a] = i + 1] /\ mode' = [mode EXCEPT ![a] = "run"] /\ outcome' = outcome
        BY <1>3, <2>12, <3>1, <3>3 DEF Proceed
      <4>2. Lived(p, Pairs(a), i + 1, "run", G, WorksOf(a))
        BY <1>6, <2>3, <2>12, <3>3
      <4> HIDE DEF G
      <4>3. QED
        BY <2>9, <2>10, <3>2, <4>1, <4>2 DEF Modes
    <3>4. CASE i = Len(p)
      <4>1. /\ at' = [at EXCEPT ![a] = i + 1] /\ mode' = [mode EXCEPT ![a] = "over"]
            /\ outcome' = [outcome EXCEPT ![a] = "done"]
        BY <3>1, <3>4 DEF Proceed
      <4>2. Lived(p, Pairs(a), i + 1, "over", G, WorksOf(a))
        BY <1>6, <2>3, <2>12, <3>4
      <4>3. outcome' \in [Actor -> Outcomes]
        BY <2>10, <4>1 DEF Outcomes
      <4> HIDE DEF G
      <4>4. QED
        BY <2>9, <3>2, <4>1, <4>2, <4>3 DEF Modes
    <3>5. QED
      BY <3>3, <3>4
  <2>13. CASE ~(Cardinality(granted[s]) > 1) /\ m = "unwind"
    <3>1. /\ mode' = [mode EXCEPT ![a] = IF Cardinality(OpenSteps(a)) = 1 THEN "over" ELSE "unwind"]
          /\ at' = [at EXCEPT ![a] = i] /\ outcome' = outcome
      BY <1>3, <1>5, <1>10, <2>13 DEF LetGo
    <3>2. i <= i
      BY <1>3
    <3>3. CASE Cardinality(OpenSteps(a)) = 1
      <4>1. mode' = [mode EXCEPT ![a] = "over"]
        BY <3>1, <3>3
      <4>2. Lived(p, Pairs(a), i, "over", G, WorksOf(a))
        BY <1>3, <1>6, <2>3, <2>13, <3>3
      <4> HIDE DEF G
      <4>3. QED
        BY <1>3, <2>9, <2>10, <3>1, <3>2, <4>1, <4>2 DEF Modes
    <3>4. CASE Cardinality(OpenSteps(a)) # 1
      <4>1. mode' = [mode EXCEPT ![a] = "unwind"]
        BY <3>1, <3>4
      <4>2. Lived(p, Pairs(a), i, "unwind", G, WorksOf(a))
        BY <1>3, <1>6, <2>3, <2>13, <3>4
      <4> HIDE DEF G
      <4>3. QED
        BY <1>3, <2>9, <2>10, <3>1, <3>2, <4>1, <4>2 DEF Modes
    <3>5. QED
      BY <3>3, <3>4
  <2>14. QED
    BY <1>1, <2>11, <2>12, <2>13
<1>11. QED
  BY <1>9, <1>10
\* What the last release of a process was about is its own.
LEMMA LastRelease ==
  ASSUME JobsInv, NEW a \in Actor, Does(a, "close") \/ mode[a] = "unwind", Innermost(a) \notin working
  PROVE  /\ Innermost(a) \in Scope /\ ScopeActor(Innermost(a)) = a
         /\ NextToLetGo(Innermost(a)) \in granted[Innermost(a)]
<1> DEFINE p == Program(a)
           i == at[a]
           m == mode[a]
<1>1. m = "unwind" \/ (m = "run" /\ p[i][1] = "close")
  BY DoesIs
<1>2. clustered \in BOOLEAN
  BY DEF JobsInv, Types
<1>3. /\ Nested(p, Pairs(a)) /\ TakesLists(p, Pairs(a))
      /\ Lived(p, Pairs(a), i, m, GrantsOf(a), WorksOf(a))
      /\ OpenSteps(a) = Open(p, GrantsOf(a))
  BY OwnFacts
<1>4. PICK t \in Open(p, GrantsOf(a)) : \A u \in Open(p, GrantsOf(a)) : u <= t
  <2> HIDE DEF p, i, m
  <2>1. QED
    BY <1>1, <1>3, Closes
<1>5. Innermost(a) = ScopeAt(a, t) /\ t \in TakeSteps(p)
  BY <1>2, <1>3, <1>4, InnermostIs DEF Open
<1>6. /\ Innermost(a) \in Scope /\ ScopeActor(Innermost(a)) = a
      /\ ScopeNames(Innermost(a)) = p[t][2]
      /\ GrantsOf(a)[t] = granted[Innermost(a)] /\ t \notin WorksOf(a)
  BY <1>2, <1>5, Here
<1> DEFINE n == p[t][2][Cardinality(GrantsOf(a)[t])]
           G == [GrantsOf(a) EXCEPT ![t] = @ \ {n}]
<1>7. n \in GrantsOf(a)[t]
  <2>1. ReleasesName(p, GrantsOf(a), t, n, G)
    BY DEF ReleasesName
  <2> HIDE DEF p, i, m, n, G
  <2>2. QED
    BY <1>1, <1>3, <1>4, <1>6, <2>1, GivesBack
<1>8. QED
  BY <1>6, <1>7 DEF NextToLetGo

\* After a step the others' names are in force and their own, and what is in force
\* is a's or was in force before.
OthersKeep(a) ==
  /\ owner' \in [LockName -> Scope \cup {NobodyScope}] /\ live' \in [LockName -> BOOLEAN]
  /\ \A s \in Scope : ScopeActor(s) # a => \A n \in granted[s] : live'[n] /\ owner'[n] = s
  /\ \A n \in LockName : live'[n] =>
       owner'[n] \in Scope /\ (ScopeActor(owner'[n]) = a \/ (live[n] /\ owner'[n] = owner[n]))

\* A process that dies has nothing, whatever becomes of its last statement, and
\* takes nothing from anybody else.
LEMMA Dying ==
  ASSUME JobsInv, NEW a \in Actor, Dies(a), clustered' = clustered, at' = at,
         mode' \in [Actor -> Modes], outcome' \in [Actor -> Outcomes], mode'[a] = "dead",
         \A b \in Actor : mode[b] = "dead" => mode'[b] = "dead"
  PROVE  /\ Types' /\ Leased' /\ OwnLocks(a)'
         /\ \A s \in Scope : ScopeActor(s) # a \/ s[3] # clustered =>
              granted'[s] = granted[s] /\ (s \in working' <=> s \in working)
<1>1. Types /\ Unused /\ Own /\ Leased /\ clustered \in BOOLEAN
  BY DEF JobsInv, Types
<1>2. /\ crashes' = crashes + 1 /\ crashes < MaxCrashes /\ LastStatement(a)
      /\ granted' = [s \in Scope |-> IF ScopeActor(s) = a THEN {} ELSE granted[s]]
      /\ working' = {s \in working : ScopeActor(s) # a}
  BY DEF Dies
<1>3. /\ granted' \in [Scope -> SUBSET LockName] /\ working' \subseteq Scope
      /\ \A s \in Scope : ScopeActor(s) = a => granted'[s] = {} /\ s \notin working'
      /\ \A s \in Scope : ScopeActor(s) # a => granted'[s] = granted[s] /\ (s \in working' <=> s \in working)
  BY <1>1, <1>2 DEF Types
<1>4. \A s \in Scope : ScopeActor(s) # a \/ s[3] # clustered =>
        granted'[s] = granted[s] /\ (s \in working' <=> s \in working)
  BY <1>1, <1>3 DEF Unused
<1>5. crashes' \in 0..MaxCrashes
  BY <1>1, <1>2, JobAssumption DEF Types
<1>6. OwnLocks(a)'
  <2> DEFINE G == [t \in TakeSteps(Program(a)) |-> {}]
             W == {}
  <2>1. /\ at[a] \in 1..(Len(Program(a)) + 1)
        /\ Nested(Program(a), Pairs(a)) /\ TakesLists(Program(a), Pairs(a))
    BY OwnFacts DEF Lived
  <2>2. ASSUME NEW k \in TakeSteps(Program(a))
        PROVE  granted'[ScopeAt(a, k)] = G[k] /\ (ScopeAt(a, k) \in working' <=> k \in W)
    <3>1. ScopeAt(a, k) \in Scope /\ ScopeActor(ScopeAt(a, k)) = a
      BY <1>1, Here
    <3>2. QED
      BY <1>3, <3>1
  <2>3. G \in [TakeSteps(Program(a)) -> SUBSET LockName] /\ W \subseteq TakeSteps(Program(a))
    OBVIOUS
  <2>4. G = [t \in TakeSteps(Program(a)) |-> {}] /\ W = {}
    OBVIOUS
  <2> HIDE DEF G, W
  <2>5. Lived(Program(a), Pairs(a), at[a], "dead", G, W)
    BY <2>1, <2>4, LivesWithout
  <2>6. Lived(Program(a), Pairs(a), at'[a], mode'[a], G, W)
    BY <2>5
  <2>7. QED
    BY <1>1, <2>2, <2>3, <2>6, GrantsAfter
<1>7. OthersKeep(a)
  <2>1. /\ \A s \in Scope : \A n \in granted[s] : n \in LockName /\ live[n] /\ owner[n] = s
        /\ \A n \in LockName : live[n] => owner[n] \in Scope
        /\ owner \in [LockName -> Scope \cup {NobodyScope}] /\ live \in [LockName -> BOOLEAN]
    BY <1>1 DEF Leased, Types
  <2>2. CASE UNCHANGED <<owner, live>>
    BY <2>1, <2>2 DEF OthersKeep
  <2>3. ASSUME NEW n, NEW s \in Scope, ScopeActor(s) = a, ~live[n],
               live' = [live EXCEPT ![n] = TRUE], owner' = [owner EXCEPT ![n] = s]
        PROVE  OthersKeep(a)
    <3>1. owner' \in [LockName -> Scope \cup {NobodyScope}] /\ live' \in [LockName -> BOOLEAN]
      BY <2>1, <2>3
    <3>2. \A x \in LockName : x # n => owner'[x] = owner[x] /\ live'[x] = live[x]
      BY <2>1, <2>3
    <3>3. n \in LockName => owner'[n] = s
      BY <2>1, <2>3
    <3>4. QED
      BY <2>1, <2>3, <3>1, <3>2, <3>3 DEF OthersKeep
  <2>4. ASSUME NEW n, NEW s \in Scope, ScopeActor(s) = a, n \in granted[s],
               live' = [live EXCEPT ![n] = FALSE], owner' = owner
        PROVE  OthersKeep(a)
    <3>1. owner' \in [LockName -> Scope \cup {NobodyScope}] /\ live' \in [LockName -> BOOLEAN]
      BY <2>1, <2>4
    <3>2. \A x \in LockName : x # n => live'[x] = live[x]
      BY <2>1, <2>4
    <3>3. owner[n] = s /\ n \in LockName /\ live'[n] = FALSE
      BY <2>1, <2>4
    <3>4. QED
      BY <2>1, <2>4, <3>1, <3>2, <3>3 DEF OthersKeep
  <2>5. CASE /\ Does(a, "take") /\ ~live[NextName(HereScope(a))]
             /\ live' = [live EXCEPT ![NextName(HereScope(a))] = TRUE]
             /\ owner' = [owner EXCEPT ![NextName(HereScope(a))] = HereScope(a)]
    <3>1. HereScope(a) \in Scope /\ ScopeActor(HereScope(a)) = a
      BY <1>1, <2>5, DoesIs, Here DEF HereScope, TakeSteps
    <3>2. QED
      BY <2>3, <2>5, <3>1
  <2>6. CASE /\ Does(a, "close") \/ mode[a] = "unwind"
             /\ Innermost(a) \notin working
             /\ live' = [live EXCEPT ![NextToLetGo(Innermost(a))] = FALSE]
             /\ UNCHANGED owner
    <3>1. /\ Innermost(a) \in Scope /\ ScopeActor(Innermost(a)) = a
          /\ NextToLetGo(Innermost(a)) \in granted[Innermost(a)]
      BY <2>6, LastRelease
    <3>2. QED
      BY <2>4, <2>6, <3>1
  <2>7. QED
    BY <1>2, <2>2, <2>5, <2>6 DEF LastStatement
<1>8. Leased'
  <2>1. \A s \in Scope : \A n \in granted'[s] : live'[n] /\ owner'[n] = s
    BY <1>3, <1>7 DEF OthersKeep
  <2>2. ASSUME NEW n \in LockName, live'[n]
        PROVE  owner'[n] \in Scope /\ (n \in granted'[owner'[n]] \/ mode'[ScopeActor(owner'[n])] = "dead")
    <3>1. owner'[n] \in Scope /\ (ScopeActor(owner'[n]) = a \/ (live[n] /\ owner'[n] = owner[n]))
      BY <1>7, <2>2 DEF OthersKeep
    <3>2. CASE ScopeActor(owner'[n]) = a
      BY <3>1, <3>2
    <3>3. CASE ScopeActor(owner'[n]) # a
      <4>1. live[n] /\ owner'[n] = owner[n]
        BY <3>1, <3>3
      <4>2. n \in granted[owner[n]] \/ mode[ScopeActor(owner[n])] = "dead"
        BY <1>1, <4>1 DEF Leased
      <4>3. granted'[owner[n]] = granted[owner[n]] /\ ScopeActor(owner[n]) \in Actor
        BY <1>3, <3>1, <3>3, <4>1, TakeOfScope
      <4>4. QED
        BY <3>1, <4>1, <4>2, <4>3
    <3>4. QED
      BY <3>2, <3>3
  <2>3. QED
    BY <2>1, <2>2 DEF Leased
<1>9. Types'
  BY <1>1, <1>3, <1>5, <1>7 DEF Types, OthersKeep
<1>10. QED
  BY <1>4, <1>6, <1>8, <1>9
\* A process that is killed, or crashes.
LEMMA Crashing ==
  ASSUME JobsInv, NEW a \in Actor, CrashJob(a)
  PROVE  JobsInv'
<1>1. Types /\ Unused /\ Own /\ Spawned
  BY DEF JobsInv
<1>2. /\ Dies(a) /\ mode' = [mode EXCEPT ![a] = "dead"] /\ mode[a] # "idle"
      /\ clustered' = clustered /\ at' = at /\ outcome' = outcome
  BY DEF CrashJob, Dies
<1>3. /\ mode' \in [Actor -> Modes] /\ mode'[a] = "dead" /\ outcome' \in [Actor -> Outcomes]
      /\ \A b \in Actor : b # a => mode'[b] = mode[b]
  BY <1>1, <1>2 DEF Types, Modes
<1>4. \A b \in Actor : mode[b] = "dead" => mode'[b] = "dead"
  BY <1>3
<1>5. /\ Types' /\ Leased' /\ OwnLocks(a)'
      /\ \A s \in Scope : ScopeActor(s) # a \/ s[3] # clustered =>
           granted'[s] = granted[s] /\ (s \in working' <=> s \in working)
  BY <1>2, <1>3, <1>4, Dying
<1>6. Unused' /\ Own' /\ Spawned'
  <2> DEFINE M == {a}
  <2>1. \A b \in Actor : b \notin M => at'[b] = at[b] /\ mode'[b] = mode[b]
    BY <1>2, <1>3
  <2>2. \A s \in Scope : ScopeActor(s) \notin M \/ s[3] # clustered =>
          granted'[s] = granted[s] /\ (s \in working' <=> s \in working)
    BY <1>5
  <2>3. \A b \in Actor : b \in M => OwnLocks(b)' /\ at[b] <= at'[b]
    BY <1>2, <1>5, OwnFacts
  <2>4. \A w \in Worker : w \in M /\ mode[w] = "idle" => mode'[w] = "idle" \/ HasSpawned(w)'
    BY <1>2
  <2> HIDE DEF M
  <2>5. QED
    BY <1>1, <1>2, <1>5, <2>1, <2>2, <2>3, <2>4, SomeMove
<1>7. QED
  BY <1>5, <1>6 DEF JobsInv

\* A worker that is killed for its time, and its parent that goes the way out.
LEMMA TimingOut ==
  ASSUME JobsInv, NEW w \in Actor, WorkerTimeout(w)
  PROVE  JobsInv'
<1> DEFINE a == Parent(w)
<1>1. Types /\ Unused /\ Own /\ Spawned /\ clustered \in BOOLEAN
  BY DEF JobsInv, Types
<1>2. w \in Worker /\ a \in Main /\ a \in Actor /\ a # w /\ a[2] = 0
  BY ActorIs DEF WorkerTimeout, Actor
<1>3. /\ Dies(w) /\ Does(a, "join") /\ clustered' = clustered /\ at' = at
      /\ mode' = [mode EXCEPT ![w] = "dead", ![a] = "unwind"]
      /\ outcome' = [outcome EXCEPT ![a] = "failed"] /\ mode[w] # "idle"
  BY DEF WorkerTimeout, Dies, Parent
<1>4. mode[a] = "run" /\ at[a] \in 1..Len(Program(a)) /\ Program(a)[at[a]][1] = "join"
  BY <1>2, <1>3, DoesIs
<1> HIDE DEF a
<1>5. /\ mode' \in [Actor -> Modes] /\ mode'[w] = "dead" /\ mode'[a] = "unwind"
      /\ \A b \in Actor : b # a /\ b # w => mode'[b] = mode[b]
      /\ outcome' \in [Actor -> Outcomes]
  BY <1>1, <1>2, <1>3 DEF Types, Modes, Outcomes
<1>6. \A b \in Actor : mode[b] = "dead" => mode'[b] = "dead"
  BY <1>4, <1>5
<1>7. /\ Types' /\ Leased' /\ OwnLocks(w)'
      /\ \A s \in Scope : ScopeActor(s) # w \/ s[3] # clustered =>
           granted'[s] = granted[s] /\ (s \in working' <=> s \in working)
  BY <1>3, <1>5, <1>6, Dying
<1>8. OwnLocks(a)'
  <2>1. /\ Lived(Program(a), Pairs(a), at[a], "run", GrantsOf(a), WorksOf(a))
        /\ Nested(Program(a), Pairs(a)) /\ Guarded(a, clustered, Program(a), Pairs(a))
        /\ TakesLists(Program(a), Pairs(a))
    BY <1>2, <1>4, OwnFacts
  <2>2. Open(Program(a), GrantsOf(a)) # {}
    <3>1. PICK t, k : <<t, k>> \in Pairs(a) /\ t < at[a] /\ at[a] < k
      BY <1>4, <2>1 DEF Guarded
    <3>2. at[a] <= k /\ t \in TakeSteps(Program(a))
      <4>1. t \in 1..Len(Program(a)) /\ k \in 1..Len(Program(a)) /\ Program(a)[t][1] = "take"
        BY <2>1, <3>1 DEF Nested
      <4>2. QED
        BY <1>4, <3>1, <4>1 DEF TakeSteps
    <3>3. t \in Around(Program(a), Pairs(a), at[a])
      BY <3>1, <3>2 DEF Around
    <3>4. QED
      BY <2>1, <3>3 DEF Lived, Placed
  <2>3. Lived(Program(a), Pairs(a), at'[a], mode'[a], GrantsOf(a), WorksOf(a))
    <3>1. Lived(Program(a), Pairs(a), at[a], "unwind", GrantsOf(a), WorksOf(a))
      BY <2>1, <2>2, WayOut
    <3>2. QED
      BY <1>3, <1>5, <3>1
  <2>4. ASSUME NEW k \in TakeSteps(Program(a))
        PROVE  /\ granted'[ScopeAt(a, k)] = GrantsOf(a)[k]
               /\ ScopeAt(a, k) \in working' <=> k \in WorksOf(a)
    <3>1. /\ ScopeAt(a, k) \in Scope /\ ScopeActor(ScopeAt(a, k)) = a
          /\ GrantsOf(a)[k] = granted[ScopeAt(a, k)]
          /\ k \in WorksOf(a) <=> ScopeAt(a, k) \in working
      BY <1>1, <1>2, Here
    <3>2. QED
      BY <1>2, <1>7, <3>1
  <2>5. /\ GrantsOf(a) \in [TakeSteps(Program(a)) -> SUBSET LockName]
        /\ WorksOf(a) \subseteq TakeSteps(Program(a))
    BY <2>1 DEF Lived
  <2>6. QED
    BY <1>1, <1>2, <1>3, <2>3, <2>4, <2>5, GrantsAfter
<1>9. Unused' /\ Own' /\ Spawned'
  <2> DEFINE M == {a, w}
  <2>1. \A b \in Actor : b \notin M => at'[b] = at[b] /\ mode'[b] = mode[b]
    BY <1>3, <1>5
  <2>2. \A s \in Scope : ScopeActor(s) \notin M \/ s[3] # clustered =>
          granted'[s] = granted[s] /\ (s \in working' <=> s \in working)
    BY <1>7
  <2>3. \A b \in Actor : b \in M => OwnLocks(b)' /\ at[b] <= at'[b]
    BY <1>3, <1>7, <1>8, OwnFacts
  <2>4. \A v \in Worker : v \in M /\ mode[v] = "idle" => mode'[v] = "idle" \/ HasSpawned(v)'
    BY <1>3, <1>4
  <2> HIDE DEF M
  <2>5. QED
    BY <1>1, <1>3, <1>7, <2>1, <2>2, <2>3, <2>4, SomeMove
<1>10. QED
  BY <1>7, <1>9 DEF JobsInv

\* The leases of a dead process run out.
LEMMA Expiring ==
  ASSUME JobsInv, NEW s \in Scope, ExpireLeases(s)
  PROVE  JobsInv'
<1>1. Types /\ Unused /\ Own /\ Leased /\ Spawned /\ clustered \in BOOLEAN
  BY DEF JobsInv, Types
<1>2. /\ mode[ScopeActor(s)] = "dead" /\ live' = [n \in LockName |-> live[n] /\ owner[n] # s]
      /\ clustered' = clustered /\ at' = at /\ mode' = mode /\ outcome' = outcome
      /\ crashes' = crashes /\ owner' = owner /\ granted' = granted /\ working' = working
  BY DEF ExpireLeases
<1>3. granted[s] = {}
  <2>1. CASE s[3] # clustered
    BY <1>1, <2>1 DEF Unused
  <2>2. CASE s[3] = clustered
    <3>1. /\ ScopeActor(s) \in Actor /\ s[4] \in TakeSteps(Program(ScopeActor(s)))
          /\ s = ScopeAt(ScopeActor(s), s[4])
      BY <2>2, There
    <3>2. GrantsOf(ScopeActor(s))[s[4]] = granted[s]
      BY <1>1, <3>1, Here
    <3>3. Open(Program(ScopeActor(s)), GrantsOf(ScopeActor(s))) = {}
      BY <1>2, <3>1, OwnFacts DEF Lived
    <3>4. QED
      BY <3>1, <3>2, <3>3 DEF Open
  <2>3. QED
    BY <2>1, <2>2
<1>4. Types'
  <2>1. live' \in [LockName -> BOOLEAN]
    BY <1>2
  <2>2. QED
    BY <1>1, <1>2, <2>1 DEF Types
<1>5. Leased'
  <2>1. ASSUME NEW u \in Scope, NEW n \in granted[u]
        PROVE  live'[n] /\ owner[n] = u
    <3>1. n \in LockName /\ live[n] /\ owner[n] = u /\ u # s
      BY <1>1, <1>3 DEF Leased, Types
    <3>2. QED
      BY <1>2, <3>1
  <2>2. \A n \in LockName : live'[n] => live[n]
    BY <1>2
  <2>3. QED
    BY <1>1, <1>2, <2>1, <2>2 DEF Leased
<1>6. Unused' /\ Own' /\ Spawned'
  <2> DEFINE M == {}
  <2>1. \A b \in Actor : b \notin M => at'[b] = at[b] /\ mode'[b] = mode[b]
    BY <1>2
  <2>2. \A u \in Scope : ScopeActor(u) \notin M \/ u[3] # clustered =>
          granted'[u] = granted[u] /\ (u \in working' <=> u \in working)
    BY <1>2
  <2>3. \A b \in Actor : b \in M => OwnLocks(b)' /\ at[b] <= at'[b]
    OBVIOUS
  <2>4. \A w \in Worker : w \in M /\ mode[w] = "idle" => mode'[w] = "idle" \/ HasSpawned(w)'
    OBVIOUS
  <2> HIDE DEF M
  <2>5. QED
    BY <1>1, <1>2, <1>4, <2>1, <2>2, <2>3, <2>4, SomeMove
<1>7. QED
  BY <1>4, <1>5, <1>6 DEF JobsInv
\* The invariant holds at first.
LEMMA JobsInvInit == JobsInit => JobsInv
<1> SUFFICES ASSUME JobsInit
             PROVE  JobsInv
  OBVIOUS
<1>1. /\ clustered \in BOOLEAN /\ at = [a \in Actor |-> 1] /\ mode = [a \in Actor |-> "idle"]
      /\ outcome = [a \in Actor |-> "none"] /\ crashes = 0
      /\ owner = [n \in LockName |-> NobodyScope] /\ live = [n \in LockName |-> FALSE]
      /\ granted = [s \in Scope |-> {}] /\ working = {}
  BY DEF JobsInit, Leases!Init
<1>2. Types
  <2>1. 0 \in 0..MaxCrashes
    BY JobAssumption
  <2>2. QED
    BY <1>1, <2>1 DEF Types, Modes, Outcomes
<1>3. Unused /\ Leased /\ Spawned
  <2>1. \A w \in Worker : w \in Actor
    BY DEF Actor
  <2>2. QED
    BY <1>1, <2>1 DEF Unused, Leased, Spawned
<1>4. Own
  <2> SUFFICES ASSUME NEW a \in Actor
               PROVE  OwnLocks(a)
    BY DEF Own
  <2>1. Nested(Program(a), Pairs(a)) /\ TakesLists(Program(a), Pairs(a))
    BY <1>1, ProgramIs
  <2>2. 1 \in 1..(Len(Program(a)) + 1)
    BY <2>1, TakesAre
  <2>3. GrantsOf(a) = [t \in TakeSteps(Program(a)) |-> {}]
    <3>1. \A t \in TakeSteps(Program(a)) : granted[ScopeAt(a, t)] = {}
      BY <1>1, Here
    <3>2. QED
      BY <3>1 DEF GrantsOf
  <2>4. WorksOf(a) = {}
    BY <1>1 DEF WorksOf
  <2>5. at[a] = 1 /\ mode[a] = "idle"
    BY <1>1
  <2>6. Lived(Program(a), Pairs(a), 1, "idle", GrantsOf(a), WorksOf(a))
    BY <2>1, <2>2, <2>3, <2>4, LivesWithout
  <2>7. QED
    BY <2>5, <2>6 DEF OwnLocks
<1>5. QED
  BY <1>2, <1>3, <1>4 DEF JobsInv

\* Every step keeps it.
LEMMA JobsInvStep == JobsInv /\ [JobsNext]_jobVars => JobsInv'
<1> SUFFICES ASSUME JobsInv, [JobsNext]_jobVars
             PROVE  JobsInv'
  OBVIOUS
<1>1. ASSUME NEW a \in Actor, StartJob(a) \/ JobStep(a) \/ CrashJob(a) \/ WorkerTimeout(a)
      PROVE  JobsInv'
  <2>1. CASE TakeLock(a)
    BY <2>1, Taking
  <2>2. CASE LetGo(a)
    BY <2>2, LettingGo
  <2>3. CASE SpawnWorkers(a)
    BY <2>3, Spawns
  <2>4. CASE \/ StartJob(a) \/ RefuseLock(a) \/ FinishStage(a) \/ FindLot(a)
             \/ LookAtLocks(a) \/ JoinWorkers(a)
    BY <2>4, QuietSteps
  <2>5. CASE CrashJob(a)
    BY <2>5, Crashing
  <2>6. CASE WorkerTimeout(a)
    BY <2>6, TimingOut
  <2>7. QED
    BY <1>1, <2>1, <2>2, <2>3, <2>4, <2>5, <2>6 DEF JobStep
<1>2. ASSUME NEW s \in Scope, ExpireLeases(s)
      PROVE  JobsInv'
  BY <1>2, Expiring
<1>3. CASE UNCHANGED jobVars
  <2>1. \A w : Program(Parent(w))' = Program(Parent(w))
    BY <1>3, SameProgram DEF jobVars
  <2>2. /\ clustered' = clustered /\ at' = at /\ mode' = mode /\ outcome' = outcome
        /\ crashes' = crashes /\ owner' = owner /\ live' = live /\ granted' = granted
        /\ working' = working
    BY <1>3 DEF jobVars, jobLocks
  <2>3. /\ Types' /\ Unused' /\ Leased'
    BY <2>2 DEF JobsInv, Types, Unused, Leased
  <2>4. Own'
    <3> SUFFICES ASSUME NEW a \in Actor
                 PROVE  OwnLocks(a)'
      BY DEF Own
    <3>1. OwnLocks(a) /\ clustered \in BOOLEAN
      BY DEF JobsInv, Own, Types
    <3>2. QED
      BY <2>2, <3>1, Frame
  <2>5. Spawned'
    BY <2>1, <2>2 DEF JobsInv, Spawned, HasSpawned, Parent
  <2>6. QED
    BY <2>3, <2>4, <2>5 DEF JobsInv
<1>4. QED
  BY <1>1, <1>2, <1>3 DEF JobsNext

\* Whatever names a scope has been granted are among those it asks for.
LEMMA GrantedAreNeeded ==
  ASSUME JobsInv, NEW s \in Scope
  PROVE  granted[s] \subseteq ScopeNeeds[s]
<1>1. Unused /\ clustered \in BOOLEAN
  BY DEF JobsInv, Types
<1>2. CASE s[3] # clustered
  BY <1>1, <1>2 DEF Unused
<1>3. CASE s[3] = clustered
  <2> DEFINE a == ScopeActor(s)
             t == s[4]
  <2>1. a \in Actor /\ t \in TakeSteps(Program(a)) /\ s = ScopeAt(a, t)
    BY <1>3, There
  <2>2. GrantsOf(a)[t] = granted[s] /\ ScopeNeeds[s] = NameSet(Program(a)[t][2])
    BY <1>1, <2>1, Here
  <2>3. /\ Kept(Program(a), GrantsOf(a), WorksOf(a))
        /\ Nested(Program(a), Pairs(a)) /\ TakesLists(Program(a), Pairs(a))
    BY <2>1, OwnFacts DEF Lived
  <2>4. Listing(Program(a)[t][2])
    BY <2>1, <2>3, TakesAre
  <2>5. PICK m \in 0..Len(Program(a)[t][2]) : GrantsOf(a)[t] = Prefix(Program(a)[t][2], m)
    BY <2>1, <2>3 DEF Kept
  <2>6. QED
    BY <2>2, <2>4, <2>5, PrefixIs
<1>4. QED
  BY <1>2, <1>3

\* A name is granted to one scope.
LEMMA OneHolder ==
  ASSUME JobsInv, NEW s \in Scope, NEW u \in Scope, NEW n, n \in granted[s], n \in granted[u]
  PROVE  s = u /\ ScopeActor(s) = ScopeActor(u)
BY DEF JobsInv, Leased

\* An actor at a stage holds the locks of the stage.
LEMMA StageHolds ==
  ASSUME JobsInv, NEW a \in Actor, Does(a, "work"), a[2] = 0 \/ clustered,
         NEW n \in StageLocks(a, clustered)
  PROVE  \E s \in Scope : ScopeActor(s) = a /\ n \in granted[s]
<1> DEFINE p == Program(a)
           i == at[a]
<1>1. mode[a] = "run" /\ i \in 1..Len(p) /\ p[i][1] = "work"
  BY DoesIs
<1>2. /\ clustered \in BOOLEAN /\ Guarded(a, clustered, p, Pairs(a)) /\ Nested(p, Pairs(a))
      /\ Lived(p, Pairs(a), i, "run", GrantsOf(a), WorksOf(a))
  BY <1>1, OwnFacts
<1>3. PICK t, k : /\ <<t, k>> \in Pairs(a) /\ t < i /\ i < k
                  /\ StageLocks(a, clustered) \subseteq NameSet(p[t][2])
  BY <1>1, <1>2 DEF Guarded
<1>4. t \in TakeSteps(p) /\ i <= k
  <2>1. t \in 1..Len(p) /\ k \in 1..Len(p) /\ p[t][1] = "take"
    BY <1>2, <1>3 DEF Nested
  <2>2. QED
    BY <1>1, <1>3, <2>1 DEF TakeSteps
<1>5. t \in Around(p, Pairs(a), i)
  BY <1>3, <1>4 DEF Around
<1>6. <<t, i>> \notin Pairs(a)
  BY <1>1, <1>2 DEF Nested
<1>7. t \in WorksOf(a)
  BY <1>2, <1>5, <1>6 DEF Lived, Placed
<1>8. GrantsOf(a)[t] = NameSet(p[t][2])
  BY <1>2, <1>4, <1>7 DEF Lived, Kept
<1>9. ScopeAt(a, t) \in Scope /\ ScopeActor(ScopeAt(a, t)) = a /\ n \in granted[ScopeAt(a, t)]
  BY <1>2, <1>3, <1>4, <1>8, Here
<1>10. QED
  BY <1>9

\* A worker that has started belongs to a cluster.
LEMMA WorkersCluster ==
  ASSUME JobsInv, NEW w \in Worker, mode[w] # "idle"
  PROVE  clustered
<1>1. PICK i \in 1..Len(Program(Parent(w))) : Program(Parent(w))[i][1] = "spawn"
  BY DEF JobsInv, Spawned, HasSpawned
<1>2. Parent(w) \in Actor
  BY ActorIs DEF Actor
<1>3. Guarded(Parent(w), clustered, Program(Parent(w)), Pairs(Parent(w)))
  BY <1>2, OwnFacts
<1>4. QED
  BY <1>1, <1>3 DEF Guarded
\* A job that is not dead and holds a name other than its own first one holds
\* pipeline_refresh too.
LEMMA HoldsPipeline ==
  ASSUME JobsInv, NEW s \in Scope, NEW n, n \in granted[s], ScopeActor(s) \in Main,
         n # "lot_manual_refresh"
  PROVE  \E u \in Scope : ScopeActor(u) = ScopeActor(s) /\ PIPELINE \in granted[u]
<1> DEFINE b == ScopeActor(s)
           t == s[4]
           p == Program(b)
           l == p[t][2]
<1>1. s[3] = clustered /\ clustered \in BOOLEAN
  BY DEF JobsInv, Unused, Types
<1>2. b \in Actor /\ b[2] = 0 /\ t \in TakeSteps(p) /\ s = ScopeAt(b, t)
  BY <1>1, There, ActorIs
<1>3. GrantsOf(b)[t] = granted[s]
  BY <1>1, <1>2, Here
<1>4. /\ Nested(p, Pairs(b)) /\ TakesLists(p, Pairs(b)) /\ Guarded(b, clustered, p, Pairs(b))
      /\ Kept(p, GrantsOf(b), WorksOf(b)) /\ Nesting(p, Pairs(b), GrantsOf(b), WorksOf(b))
  BY <1>2, OwnFacts DEF Lived
<1>5. Listing(l) /\ Len(l) \in Nat
  BY <1>2, <1>4, TakesAre, SomeName
<1>6. PICK m \in 0..Len(l) : granted[s] = Prefix(l, m)
  BY <1>2, <1>3, <1>4 DEF Kept
<1>7. PICK j \in 1..m : n = l[j]
  BY <1>6 DEF Prefix
<1>8. PICK k : <<t, k>> \in Pairs(b)
  BY <1>2, <1>4 DEF Nested, TakeSteps
<1>9. CASE l[1] = PIPELINE
  <2>1. 1 \in 1..m
    BY <1>5, <1>6, <1>7
  <2>2. PIPELINE \in granted[s]
    BY <1>6, <1>9, <2>1 DEF Prefix
  <2>3. QED
    BY <2>2
<1>10. CASE l[1] = "lot_manual_refresh" /\ l[2] = PIPELINE
  <2>1. j # 1
    BY <1>7, <1>10
  <2>2. 2 \in 1..m
    BY <1>5, <1>6, <1>7, <2>1
  <2>3. PIPELINE \in granted[s]
    BY <1>6, <1>10, <2>2 DEF Prefix
  <2>4. QED
    BY <2>3
<1>11. CASE \E v, x : <<v, x>> \in Pairs(b) /\ v < t /\ t < x /\ PIPELINE \in NameSet(p[v][2])
  <2>1. PICK v, x : <<v, x>> \in Pairs(b) /\ v < t /\ t < x /\ PIPELINE \in NameSet(p[v][2])
    BY <1>11
  <2>2. v \in 1..Len(p) /\ x \in 1..Len(p) /\ p[v][1] = "take" /\ t \in 1..Len(p) /\ Len(p) \in 1..12
    BY <1>2, <1>4, <2>1 DEF Nested, TakeSteps
  <2>3. v \in TakeSteps(p) /\ t <= x
    BY <2>1, <2>2 DEF TakeSteps
  <2>4. v \in Around(p, Pairs(b), t)
    BY <2>1, <2>3 DEF Around
  <2>5. t \in Open(p, GrantsOf(b))
    BY <1>2, <1>3 DEF Open
  <2>6. v \in WorksOf(b)
    BY <1>4, <2>4, <2>5 DEF Nesting
  <2>7. GrantsOf(b)[v] = NameSet(p[v][2])
    BY <1>4, <2>3, <2>6 DEF Kept
  <2>8. /\ ScopeAt(b, v) \in Scope /\ ScopeActor(ScopeAt(b, v)) = b
        /\ PIPELINE \in granted[ScopeAt(b, v)]
    BY <1>1, <1>2, <2>1, <2>3, <2>7, Here
  <2>9. QED
    BY <2>8
<1>12. \/ l[1] = PIPELINE
       \/ l[1] = "lot_manual_refresh" /\ l[2] = PIPELINE
       \/ \E v, x : <<v, x>> \in Pairs(b) /\ v < t /\ t < x /\ PIPELINE \in NameSet(p[v][2])
  <2>1. \A v, x : <<v, x>> \in Pairs(b) /\ b[2] = 0 =>
          \/ p[v][2][1] = PIPELINE
          \/ p[v][2][1] = "lot_manual_refresh" /\ Len(p[v][2]) >= 2 /\ p[v][2][2] = PIPELINE
          \/ \E u, y : <<u, y>> \in Pairs(b) /\ u < v /\ v < y /\ PIPELINE \in NameSet(p[u][2])
    BY <1>4 DEF Guarded
  <2> HIDE DEF b, p
  <2>2. QED
    BY <1>2, <1>8, <2>1
<1>13. QED
  BY <1>9, <1>10, <1>11, <1>12

\* The name an actor asks for next is in its list, and it does not hold it.
LEMMA AsksFor ==
  ASSUME JobsInv, NEW a \in Actor, Does(a, "take")
  PROVE  /\ at[a] \in TakeSteps(Program(a)) /\ mode[a] = "run"
         /\ NextName(HereScope(a)) \in NameSet(Program(a)[at[a]][2]) \ granted[HereScope(a)]
         /\ NextName(HereScope(a)) \in LockName
         /\ \A t \in OpenSteps(a) : NextName(HereScope(a)) \notin granted[ScopeAt(a, t)]
<1> DEFINE p == Program(a)
           i == at[a]
           n == p[i][2][Cardinality(GrantsOf(a)[i]) + 1]
           G == [GrantsOf(a) EXCEPT ![i] = @ \cup {n}]
           W == IF GrantsOf(a)[i] \cup {n} = NameSet(p[i][2]) THEN WorksOf(a) \cup {i} ELSE WorksOf(a)
           j == IF i \in W THEN i + 1 ELSE i
<1>1. mode[a] = "run" /\ i \in 1..Len(p) /\ p[i][1] = "take" /\ i \in TakeSteps(p)
  BY DoesIs DEF TakeSteps
<1>2. /\ clustered \in BOOLEAN /\ OpenSteps(a) = Open(p, GrantsOf(a))
      /\ Nested(p, Pairs(a)) /\ TakesLists(p, Pairs(a))
      /\ Lived(p, Pairs(a), i, "run", GrantsOf(a), WorksOf(a))
  BY <1>1, OwnFacts
<1>3. /\ HereScope(a) = ScopeAt(a, i) /\ ScopeNames(HereScope(a)) = p[i][2]
      /\ GrantsOf(a)[i] = granted[HereScope(a)]
  BY <1>1, <1>2, Here DEF HereScope
<1>4. NextName(HereScope(a)) = n
  BY <1>3 DEF NextName
<1>5. n \in NameSet(p[i][2]) \ GrantsOf(a)[i]
  <2>1. TakesName(p, i, GrantsOf(a), WorksOf(a), n, G, W, j)
    BY DEF TakesName
  <2> HIDE DEF p, i, n, G, W, j
  <2>2. QED
    BY <1>1, <1>2, <2>1, TakesNext
<1> HIDE DEF n
<1>6. Listing(p[i][2]) /\ Len(p[i][2]) \in 0..Len(p[i][2])
  <2>1. Listing(p[i][2]) /\ Len(p[i][2]) \in Nat
    BY <1>1, <1>2, TakesAre, SomeName
  <2>2. QED
    BY <2>1
<1>7. n \in LockName
  BY <1>5, <1>6, PrefixIs
<1>8. ASSUME NEW t \in OpenSteps(a), n \in granted[ScopeAt(a, t)]
      PROVE  FALSE
  <2>1. t \in TakeSteps(p) /\ t \in Open(p, GrantsOf(a)) /\ GrantsOf(a)[t] = granted[ScopeAt(a, t)]
    BY <1>2, Here DEF Open
  <2>2. t # i
    BY <1>5, <1>8, <2>1
  <2>3. t \in Around(p, Pairs(a), i)
    BY <1>2, <2>1, <2>2 DEF Lived, Placed
  <2>4. PICK k : <<t, k>> \in Pairs(a) /\ t < i /\ i <= k
    BY <2>3 DEF Around
  <2>5. PICK x : <<i, x>> \in Pairs(a)
    BY <1>1, <1>2 DEF Nested
  <2>6. k # i /\ k \in 1..Len(p) /\ p[k][1] = "close"
    BY <1>1, <1>2, <2>4 DEF Nested
  <2>7. i < k
    BY <1>1, <2>4, <2>6
  <2>8. NameSet(p[t][2]) \cap NameSet(p[i][2]) = {}
    BY <1>2, <2>4, <2>5, <2>7 DEF TakesLists
  <2>9. PICK m \in 0..Len(p[t][2]) : GrantsOf(a)[t] = Prefix(p[t][2], m)
    BY <1>2, <2>1 DEF Lived, Kept
  <2>10. Listing(p[t][2])
    BY <1>2, <2>1, TakesAre
  <2>11. n \in NameSet(p[t][2])
    BY <1>8, <2>1, <2>9, <2>10, PrefixIs
  <2>12. QED
    BY <1>5, <2>8, <2>11
<1>9. QED
  BY <1>1, <1>3, <1>4, <1>5, <1>7, <1>8

\* A job that holds pipeline_refresh is refused only by a worker or by the dead.
LEMMA NotUnderPipeline == JobsInv => RefusedUnderPipeline
<1> SUFFICES ASSUME JobsInv, NEW a \in Actor, Does(a, "take"),
                    NEW i \in OpenSteps(a), PIPELINE \in granted[ScopeAt(a, i)],
                    live[NextName(HereScope(a))],
                    ScopeActor(owner[NextName(HereScope(a))]) \notin Worker,
                    mode[ScopeActor(owner[NextName(HereScope(a))])] # "dead"
             PROVE  FALSE
  BY DEF RefusedUnderPipeline
<1> DEFINE n == NextName(HereScope(a))
           s == owner[n]
           b == ScopeActor(s)
           p == Program(a)
<1>1. /\ at[a] \in TakeSteps(p) /\ n \in NameSet(p[at[a]][2]) \ granted[HereScope(a)]
      /\ n \in LockName /\ \A t \in OpenSteps(a) : n \notin granted[ScopeAt(a, t)]
  BY AsksFor
<1>2. s \in Scope /\ n \in granted[s]
  BY <1>1 DEF JobsInv, Leased
<1>3. b \in Actor /\ b \in Main
  BY <1>2, TakeOfScope, ActorIs
<1>4. clustered \in BOOLEAN /\ s[3] = clustered /\ i \in TakeSteps(p)
  BY <1>2 DEF JobsInv, Types, Unused, OpenSteps
<1>5. ScopeAt(a, i) \in Scope /\ ScopeActor(ScopeAt(a, i)) = a /\ GrantsOf(a)[i] = granted[ScopeAt(a, i)]
  BY <1>4, Here
<1>6. CASE n # "lot_manual_refresh"
  <2>1. PICK u \in Scope : ScopeActor(u) = b /\ PIPELINE \in granted[u]
    BY <1>2, <1>3, <1>6, HoldsPipeline
  <2>2. b = a
    BY <1>5, <2>1, OneHolder
  <2>3. s[4] \in TakeSteps(p) /\ s = ScopeAt(a, s[4])
    BY <1>2, <1>4, <2>2, There
  <2>4. s[4] \in OpenSteps(a)
    BY <1>2, <2>3 DEF OpenSteps
  <2>5. QED
    BY <1>1, <1>2, <2>3, <2>4
<1>7. CASE n = "lot_manual_refresh"
  <2>1. /\ Nested(p, Pairs(a)) /\ TakesLists(p, Pairs(a)) /\ Guarded(a, clustered, p, Pairs(a))
        /\ Kept(p, GrantsOf(a), WorksOf(a))
    BY OwnFacts DEF Lived
  <2> HIDE DEF n
  <2>2. PICK j \in 1..Len(p[at[a]][2]) : n = p[at[a]][2][j]
    BY <1>1 DEF NameSet
  <2>3. PICK k : <<at[a], k>> \in Pairs(a)
    BY <1>1, <2>1 DEF Nested, TakeSteps
  <2>4. PICK x : <<i, x>> \in Pairs(a)
    BY <1>4, <2>1 DEF Nested, TakeSteps
  <2>5. j = 1 /\ i = at[a]
    BY <1>7, <2>1, <2>2, <2>3, <2>4 DEF Guarded
  <2>6. PICK m \in 0..Len(p[i][2]) : granted[ScopeAt(a, i)] = Prefix(p[i][2], m)
    BY <1>4, <1>5, <2>1 DEF Kept
  <2>7. 1 \in 1..m
    <3>1. PICK y \in 1..m : PIPELINE = p[i][2][y]
      BY <2>6 DEF Prefix
    <3>2. Len(p[i][2]) \in Nat
      BY <1>4, <2>1, TakesAre, SomeName
    <3>3. QED
      BY <3>1, <3>2, <2>6
  <2>8. n \in granted[ScopeAt(a, i)]
    BY <2>2, <2>5, <2>6, <2>7 DEF Prefix
  <2>9. QED
    BY <1>1, <2>8
<1>8. QED
  BY <1>6, <1>7

\* What a job does around its takes: it looks at the locks before the first of them,
\* waits for its workers as soon as it has spawned them, and ends with the close of
\* its first take.
InTurn(p, e) ==
  /\ \A i \in 1..Len(p) : p[i][1] = "look" => \A t, k : <<t, k>> \in e => i < t
  /\ \A i \in 1..Len(p) : p[i][1] = "spawn" => i < Len(p) /\ p[i + 1][1] = "join"

\* A program that neither looks nor spawns.
LEMMA NoLookNoSpawn ==
  ASSUME NEW p, NEW e, NEW l, NEW x, p = <<Take(l), Work(x), Close>>
  PROVE  InTurn(p, e)
<1>1. Len(p) = 3 /\ p[1][1] = "take" /\ p[2][1] = "work" /\ p[3][1] = "close"
  BY DEF Take, Work, Close, Plain
<1>2. \A i \in 1..3 : i = 1 \/ i = 2 \/ i = 3
  OBVIOUS
<1>3. \A i \in 1..3 : p[i][1] # "look" /\ p[i][1] # "spawn"
  BY <1>1, <1>2
<1>4. QED
  BY <1>1, <1>3 DEF InTurn

\* Every program does so.
LEMMA ProgramsWalk ==
  ASSUME NEW c \in BOOLEAN, NEW a \in Actor
  PROVE  InTurn(Programs[c][a], Ends(a, c))
<1>1. Programs[c][a] = IF a[2] = 0 THEN JobProgram(a[1], c) ELSE WorkerProgram(a[2])
  BY DEF Programs
<1>2. CASE a[2] # 0
  BY <1>1, <1>2, NoLookNoSpawn DEF WorkerProgram
<1>3. ASSUME NEW j \in Job, a = <<j, 0>>, NEW p, p = JobProgram(j, c)
      PROVE  InTurn(p, Ends(a, c))
  <2>1. CASE Kind[j] = "sync" \/ Kind[j] = "retention"
    BY <1>3, <2>1, OtherJobsAre, NoLookNoSpawn
  <2>2. CASE Kind[j] = "ingest"
    <3>1. /\ p \in Seq(JobSteps) /\ Size(p, 6) /\ p[1] = Take(<<PIPELINE, CSV>>) /\ p[2] = Work("ingest")
          /\ p[3] = Take(<<GATE>>) /\ p[4] = Work("prune") /\ p[5] = Close /\ p[6] = Close
      BY <1>3, <2>2, IngestJobIs
    <3>2. /\ p[1][1] = "take" /\ p[2][1] = "work" /\ p[3][1] = "take" /\ p[4][1] = "work"
          /\ p[5][1] = "close" /\ p[6][1] = "close"
      BY <3>1 DEF Take, Work, Close, Plain
    <3>3. \A i \in 1..Len(p) : i = 1 \/ i = 2 \/ i = 3 \/ i = 4 \/ i = 5 \/ i = 6
      BY <3>1 DEF Size
    <3>4. \A i \in 1..Len(p) : p[i][1] # "look" /\ p[i][1] # "spawn"
      BY <3>2, <3>3
    <3>5. QED
      BY <3>4 DEF InTurn
  <2>3. CASE Kind[j] = "retry"
    <3>1. p = Photo(c, FALSE)
      BY <1>3, <2>3, OtherJobsAre
    <3>2. /\ p \in Seq(JobSteps) /\ p[1] = Take(PhotoNames(c, FALSE))
          /\ c => Size(p, 4) /\ p[2] = Plain("spawn") /\ p[3] = Plain("join") /\ p[4] = Close
          /\ ~c => Size(p, 3) /\ p[2] = Work("photo") /\ p[3] = Close
      BY <3>1, PhotoIs
    <3>3. CASE c
      <4>1. /\ p[1][1] = "take" /\ p[2][1] = "spawn" /\ p[3][1] = "join" /\ p[4][1] = "close"
            /\ Size(p, 4) /\ Len(p) \in Nat
        BY <3>2, <3>3 DEF Take, Plain, Close
      <4>2. \A i \in 1..Len(p) : i = 1 \/ i = 2 \/ i = 3 \/ i = 4
        BY <4>1 DEF Size
      <4>3. \A i \in 1..Len(p) : p[i][1] # "look" /\ (p[i][1] = "spawn" => i = 2)
        BY <4>1, <4>2
      <4>4. 2 < Len(p) /\ p[2 + 1][1] = "join"
        BY <4>1 DEF Size
      <4>5. QED
        BY <4>3, <4>4 DEF InTurn
    <3>4. CASE ~c
      <4>1. /\ p[1][1] = "take" /\ p[2][1] = "work" /\ p[3][1] = "close"
            /\ Size(p, 3) /\ Len(p) \in Nat
        BY <3>2, <3>4 DEF Take, Work, Plain, Close
      <4>2. \A i \in 1..Len(p) : i = 1 \/ i = 2 \/ i = 3
        BY <4>1 DEF Size
      <4>3. \A i \in 1..Len(p) : p[i][1] # "look" /\ p[i][1] # "spawn"
        BY <4>1, <4>2
      <4>4. QED
        BY <4>3 DEF InTurn
    <3>5. QED
      BY <3>3, <3>4
  <2>4. CASE Kind[j] = "pipeline"
    <3>1. /\ p \in Seq(JobSteps)
          /\ p[1] = Take(<<PIPELINE>>) /\ p[2] = Take(<<CSV>>) /\ p[3] = Work("ingest")
          /\ p[4] = Take(<<GATE>>) /\ p[5] = Work("prune") /\ p[6] = Close /\ p[7] = Close
          /\ p[8] = Take(PhotoNames(c, TRUE))
          /\ c => /\ Size(p, 12) /\ p[9] = Plain("spawn") /\ p[10] = Plain("join")
                  /\ p[11] = Close /\ p[12] = Close
          /\ ~c => /\ Size(p, 11) /\ p[9] = Work("photo") /\ p[10] = Close /\ p[11] = Close
      BY ZenonT(60), <1>3, <2>4, PipelineIs
    <3>2. /\ p[1][1] = "take" /\ p[2][1] = "take" /\ p[3][1] = "work" /\ p[4][1] = "take"
          /\ p[5][1] = "work" /\ p[6][1] = "close" /\ p[7][1] = "close" /\ p[8][1] = "take"
      BY <3>1 DEF Take, Work, Close, Plain
    <3>3. Len(p) \in Nat /\ Len(p) <= 12
      BY <3>1 DEF Size
    <3>4. \A i \in 1..8 : p[i][1] # "look" /\ p[i][1] # "spawn"
      <4>1. \A i \in 1..8 : i = 1 \/ i = 2 \/ i = 3 \/ i = 4 \/ i = 5 \/ i = 6 \/ i = 7 \/ i = 8
        OBVIOUS
      <4>2. QED
        BY <3>2, <4>1
    <3>5. CASE c
      <4>1. p[9][1] = "spawn" /\ p[10][1] = "join" /\ p[11][1] = "close" /\ p[12][1] = "close"
        <5>1. p[9] = Plain("spawn") /\ p[10] = Plain("join") /\ p[11] = Close /\ p[12] = Close
          BY <3>1, <3>5
        <5>2. QED
          BY <5>1 DEF Plain, Close
      <4>2. \A i \in 1..Len(p) : i \in 1..8 \/ i = 9 \/ i = 10 \/ i = 11 \/ i = 12
        BY <3>3
      <4>3. \A i \in 1..Len(p) : p[i][1] # "look" /\ (p[i][1] = "spawn" => i = 9)
        BY <3>4, <4>1, <4>2
      <4>4. 9 < Len(p) /\ p[9 + 1][1] = "join"
        BY <3>1, <3>3, <3>5, <4>1 DEF Size
      <4>5. QED
        BY <4>3, <4>4 DEF InTurn
    <3>6. CASE ~c
      <4>1. p[9][1] = "work" /\ p[10][1] = "close" /\ p[11][1] = "close" /\ Size(p, 11)
        BY <3>1, <3>6 DEF Plain, Close, Work
      <4>2. \A i \in 1..Len(p) : i \in 1..8 \/ i = 9 \/ i = 10 \/ i = 11
        BY <3>3, <4>1 DEF Size
      <4>3. \A i \in 1..Len(p) : p[i][1] # "look" /\ p[i][1] # "spawn"
        BY <3>4, <4>1, <4>2
      <4>4. QED
        BY <4>3 DEF InTurn
    <3>7. QED
      BY <3>5, <3>6
  <2>5. CASE Kind[j] = "manual"
    <3>1. p = <<Plain("find"), Plain("look"), Take(GuardNames(c)), Work("upsert"), Work("photo"), Close>>
      BY <1>3, <2>5, OtherJobsAre
    <3>2. /\ Len(p) = 6
          /\ p[1] = Plain("find") /\ p[2] = Plain("look") /\ p[3] = Take(GuardNames(c))
          /\ p[4] = Work("upsert") /\ p[5] = Work("photo") /\ p[6] = Close
      BY <3>1
    <3>3. /\ p[1][1] = "find" /\ p[2][1] = "look" /\ p[3][1] = "take"
          /\ p[4][1] = "work" /\ p[5][1] = "work" /\ p[6][1] = "close"
      BY <3>2 DEF Plain, Take, Work, Close
    <3>4. \A i \in 1..6 : i = 1 \/ i = 2 \/ i = 3 \/ i = 4 \/ i = 5 \/ i = 6
      OBVIOUS
    <3>5. \A i \in 1..6 : (p[i][1] = "look" => i = 2) /\ p[i][1] # "spawn"
      BY <3>3, <3>4
    <3>6. \A t, k : <<t, k>> \in Ends(a, c) => t = 3
      BY <1>3, <2>5 DEF Ends
    <3>7. QED
      BY <3>2, <3>5, <3>6 DEF InTurn
  <2>6. Kind[j] \in {"pipeline", "ingest", "retry", "sync", "retention", "manual"}
    BY JobAssumption DEF Kinds
  <2>7. QED
    BY <2>1, <2>2, <2>3, <2>4, <2>5, <2>6
<1>4. CASE a[2] = 0
  <2>1. a \in Main
    BY <1>4, ActorIs
  <2>2. PICK j \in Job : a = <<j, 0>>
    BY <2>1 DEF Main
  <2>3. Programs[c][a] = JobProgram(j, c)
    BY <1>1, <2>2
  <2>4. QED
    BY <1>3, <2>2, <2>3
<1>5. QED
  BY <1>2, <1>4

\* A program ends with the close of the first of its takes.
LEMMA EndsWithItsFirst ==
  ASSUME NEW c \in BOOLEAN, NEW a, NEW p, Nested(p, Ends(a, c))
  PROVE  \E t : /\ <<t, Len(p)>> \in Ends(a, c)
                /\ \A u, l : <<u, l>> \in Ends(a, c) => t <= u
<1> DEFINE e == Ends(a, c)
<1>1. \E t, k : <<t, k>> \in e /\ \A u, l : <<u, l>> \in e => t <= u /\ l <= k
  <2>1. ASSUME NEW n, NEW k, e = {<<n, k>>}, n \in Int, k \in Int
        PROVE  \E t, m : <<t, m>> \in e /\ \A u, l : <<u, l>> \in e => t <= u /\ l <= m
    <3>1. <<n, k>> \in e /\ \A u, l : <<u, l>> \in e => u = n /\ l = k
      BY <2>1
    <3>2. QED
      BY <2>1, <3>1
  <2>2. ASSUME NEW n \in 11..12, e = {<<1, n>>, <<2, 7>>, <<4, 6>>, <<8, n - 1>>}
        PROVE  \E t, m : <<t, m>> \in e /\ \A u, l : <<u, l>> \in e => t <= u /\ l <= m
    <3>1. <<1, n>> \in e /\ \A u, l : <<u, l>> \in e => 1 <= u /\ l <= n
      BY <2>2
    <3>2. QED
      BY <3>1
  <2>3. CASE e = {<<1, 6>>, <<3, 5>>}
    <3>1. <<1, 6>> \in e /\ \A u, l : <<u, l>> \in e => 1 <= u /\ l <= 6
      BY <2>3
    <3>2. QED
      BY <3>1
  <2>4. \/ e = {<<1, 3>>} \/ e = {<<1, 4>>} \/ e = {<<3, 6>>} \/ e = {<<1, 6>>, <<3, 5>>}
        \/ e = {<<1, 12>>, <<2, 7>>, <<4, 6>>, <<8, 12 - 1>>}
        \/ e = {<<1, 11>>, <<2, 7>>, <<4, 6>>, <<8, 11 - 1>>}
    BY DEF Ends
  <2> HIDE DEF e
  <2>5. CASE e = {<<1, 3>>}
    BY <2>1, <2>5
  <2>6. CASE e = {<<1, 4>>}
    BY <2>1, <2>6
  <2>7. CASE e = {<<3, 6>>}
    BY <2>1, <2>7
  <2>8. CASE e = {<<1, 12>>, <<2, 7>>, <<4, 6>>, <<8, 12 - 1>>}
    <3>1. 12 \in 11..12
      OBVIOUS
    <3>2. QED
      BY <2>2, <2>8, <3>1
  <2>9. CASE e = {<<1, 11>>, <<2, 7>>, <<4, 6>>, <<8, 11 - 1>>}
    <3>1. 11 \in 11..12
      OBVIOUS
    <3>2. QED
      BY <2>2, <2>9, <3>1
  <2>10. QED
    BY Zenon, <2>3, <2>4, <2>5, <2>6, <2>7, <2>8, <2>9
<1>2. PICK t, k : <<t, k>> \in e /\ \A u, l : <<u, l>> \in e => t <= u /\ l <= k
  BY <1>1
<1>3. \E u : <<u, Len(p)>> \in e
  BY DEF Nested
<1>4. Len(p) \in 1..12 /\ k \in 1..Len(p)
  BY <1>2 DEF Nested
<1> HIDE DEF e
<1>5. k = Len(p)
  <2>1. Len(p) <= k
    BY <1>2, <1>3
  <2>2. QED
    BY <1>4, <2>1
<1>6. <<t, Len(p)>> \in e /\ \A u, l : <<u, l>> \in e => t <= u
  BY <1>2, <1>5
<1>7. QED
  BY <1>6 DEF e

-----------------------------------------------------------------------------
(* Who gets through. *)

\* Name n has been granted to actor a.
HasName(a, n) == \E s \in Scope : ScopeActor(s) = a /\ n \in granted[s]

\* Job a was not refused and will not be: it has ended otherwise, or it holds
\* pipeline_refresh, or it is at its last close.
GetsThrough(a) ==
  \/ outcome[a] \in {"done", "failed", "notfound"}
  \/ mode[a] = "run" /\ (HasName(a, PIPELINE) \/ at[a] = Len(Program(a)))

\* A manual refresh that holds its own lock and has yet to ask for the next.
HasItsOwn(a) == mode[a] = "run" /\ HasName(a, "lot_manual_refresh")

\* Jobs that have a way out of their own have left their program, or are leaving it.
ReasonGiven ==
  \A a \in Actor : /\ mode[a] \in {"idle", "run"} => outcome[a] = "none"
                   /\ mode[a] \in {"unwind", "over"} => outcome[a] # "none"

\* Workers have a parent that waits for them.
Accompanied == \A w \in Worker : mode[w] \in {"run", "unwind"} => Does(Parent(w), "join")

\* Nobody who holds pipeline_refresh was refused anything.
Unrefused == \A a \in Main : HasName(a, PIPELINE) => outcome[a] # "refused"

\* Whoever was refused left somebody who gets through, or a manual refresh of which
\* the same can be said when it is refused in turn.
OneGets ==
  (\E a \in Main : outcome[a] = "refused") => \E b \in Main : GetsThrough(b) \/ HasItsOwn(b)

NobodyDies == \A a \in Actor : mode[a] # "dead"

Rivals == crashes = 0 => ReasonGiven /\ Accompanied /\ Unrefused /\ OneGets /\ NobodyDies

\* The take that holds pipeline_refresh is closed by the last step.
LEMMA PipelineLast ==
  ASSUME JobsInv, NEW a \in Main, NEW s \in Scope, ScopeActor(s) = a, NEW n \in granted[s],
         n \in {PIPELINE, "lot_manual_refresh"}, NEW k, <<s[4], k>> \in Pairs(a)
  PROVE  k = Len(Program(a))
<1> DEFINE p == Program(a)
           e == Pairs(a)
           t == s[4]
<1>1. a \in Actor /\ a[2] = 0
  BY ActorIs DEF Actor
<1>2. s[3] = clustered /\ clustered \in BOOLEAN
  BY DEF JobsInv, Types, Unused
<1>3. t \in TakeSteps(p) /\ s = ScopeAt(a, t) /\ ScopeNeeds[s] = NameSet(p[t][2])
  BY <1>2, There, Here
<1>4. n \in NameSet(p[t][2])
  BY <1>3, GrantedAreNeeded
<1>5. Nested(p, e) /\ TakesLists(p, e) /\ Guarded(a, clustered, p, e)
  BY <1>1, OwnFacts
<1>6. PICK f : <<f, Len(p)>> \in e /\ \A u, l : <<u, l>> \in e => f <= u
  BY <1>2, <1>5, EndsWithItsFirst DEF Pairs
<1>7. /\ Len(p) \in 1..12 /\ f \in 1..Len(p) /\ f < Len(p)
      /\ t \in 1..Len(p) /\ k \in 1..Len(p) /\ t < k /\ f <= t
  BY <1>5, <1>6 DEF Nested
<1>8. CASE t = f
  BY <1>5, <1>6, <1>8 DEF Nested
<1>9. CASE t # f
  <2>1. f < t
    BY <1>7, <1>9
  <2>2. k < Len(p) \/ Len(p) < t
    BY <1>5, <1>6, <2>1 DEF Nested
  <2>3. t < Len(p)
    BY <1>7, <2>2
  <2>4. NameSet(p[f][2]) \cap NameSet(p[t][2]) = {}
    BY <1>5, <1>6, <2>1, <2>3 DEF TakesLists
  <2>5. CASE n = "lot_manual_refresh"
    <3>1. PICK i \in 1..Len(p[t][2]) : p[t][2][i] = n
      BY <1>4 DEF NameSet
    <3>2. f = t
      BY <1>5, <1>6, <2>5, <3>1 DEF Guarded
    <3>3. QED
      BY <1>9, <3>2
  <2>6. CASE n = PIPELINE
    <3>1. p[f][1] = "take" /\ f \in TakeSteps(p)
      BY <1>5, <1>6 DEF Nested, TakeSteps
    <3>2. Listing(p[f][2]) /\ 1 \in 1..Len(p[f][2]) /\ Len(p[f][2]) \in Nat
      BY <1>5, <3>1, TakesAre, ListingFacts
    <3>3. \/ p[f][2][1] = PIPELINE
          \/ Len(p[f][2]) >= 2 /\ p[f][2][2] = PIPELINE
          \/ \E u, l : <<u, l>> \in e /\ u < f /\ f < l
      BY <1>1, <1>5, <1>6 DEF Guarded
    <3>4. ~ \E u, l : <<u, l>> \in e /\ u < f /\ f < l
      <4> SUFFICES ASSUME NEW u, NEW l, <<u, l>> \in e, u < f
                   PROVE  FALSE
        OBVIOUS
      <4>1. f <= u /\ u \in 1..Len(p)
        BY <1>5, <1>6 DEF Nested
      <4>2. QED
        BY <1>7, <4>1
    <3>5. \E i \in 1..Len(p[f][2]) : p[f][2][i] = PIPELINE
      BY <3>2, <3>3, <3>4
    <3>6. PIPELINE \in NameSet(p[f][2])
      BY <3>5 DEF NameSet
    <3>7. QED
      BY <1>4, <2>4, <2>6, <3>6
  <2>7. QED
    BY <2>5, <2>6
<1>10. QED
  BY <1>8, <1>9

\* A job that waits for its workers holds pipeline_refresh.
LEMMA JoinHolds ==
  ASSUME JobsInv, NEW a \in Main, Does(a, "join")
  PROVE  HasName(a, PIPELINE)
<1> DEFINE p == Program(a)
           i == at[a]
           e == Pairs(a)
<1>1. a \in Actor /\ a[2] = 0
  BY ActorIs DEF Actor
<1>2. mode[a] = "run" /\ i \in 1..Len(p) /\ p[i][1] = "join"
  BY <1>1, DoesIs
<1>3. /\ clustered \in BOOLEAN /\ Guarded(a, clustered, p, e) /\ Nested(p, e) /\ TakesLists(p, e)
      /\ Placed(p, e, i, GrantsOf(a), WorksOf(a)) /\ Kept(p, GrantsOf(a), WorksOf(a))
  BY <1>1, <1>2, OwnFacts DEF Lived
<1>4. PICK t, k : <<t, k>> \in e /\ t < i /\ i < k
  BY <1>2, <1>3 DEF Guarded
<1>5. t \in TakeSteps(p) /\ i <= k /\ <<t, i>> \notin e
  <2>1. t \in 1..Len(p) /\ k \in 1..Len(p) /\ p[t][1] = "take"
    BY <1>3, <1>4 DEF Nested
  <2>2. <<t, i>> \notin e
    BY <1>2, <1>3 DEF Nested
  <2>3. QED
    BY <1>2, <1>4, <2>1, <2>2 DEF TakeSteps
<1>6. t \in Around(p, e, i)
  BY <1>4, <1>5 DEF Around
<1>7. t \in WorksOf(a)
  BY <1>3, <1>5, <1>6 DEF Placed
<1>8. GrantsOf(a)[t] = NameSet(p[t][2])
  BY <1>3, <1>5, <1>7 DEF Kept
<1>9. ScopeAt(a, t) \in Scope /\ ScopeActor(ScopeAt(a, t)) = a /\ granted[ScopeAt(a, t)] = NameSet(p[t][2])
  BY <1>1, <1>3, <1>5, <1>8, Here
<1>10. Listing(p[t][2]) /\ 1 \in 1..Len(p[t][2]) /\ Len(p[t][2]) \in Nat
  BY <1>3, <1>5, TakesAre, ListingFacts
<1>11. \E n \in NameSet(p[t][2]) : n # "lot_manual_refresh"
  <2>1. CASE p[t][2][1] = "lot_manual_refresh"
    <3>1. ~ \E u, l : <<u, l>> \in e /\ u < t /\ t < l /\ PIPELINE \in NameSet(p[u][2])
      <4>1. \A u, l : <<u, l>> \in e => u = t
        BY <1>3, <1>4, <1>10, <2>1 DEF Guarded
      <4>2. t \in 1..Len(p) /\ ~(t < t)
        BY <1>5 DEF TakeSteps
      <4>3. QED
        BY <4>1, <4>2
    <3>2. p[t][2][1] = PIPELINE \/ (Len(p[t][2]) >= 2 /\ p[t][2][2] = PIPELINE)
      BY <1>1, <1>3, <1>4, <3>1 DEF Guarded
    <3>3. Len(p[t][2]) >= 2 /\ p[t][2][2] = PIPELINE
      BY <2>1, <3>2 DEF PIPELINE
    <3>4. 2 \in 1..Len(p[t][2])
      BY <1>10, <3>3
    <3>5. PIPELINE \in NameSet(p[t][2])
      BY <3>3, <3>4, Named
    <3>6. QED
      BY <3>5 DEF PIPELINE
  <2>2. CASE p[t][2][1] # "lot_manual_refresh"
    BY <1>10, <2>2, Named
  <2>3. QED
    BY <2>1, <2>2
<1>12. PICK n \in granted[ScopeAt(a, t)] : n # "lot_manual_refresh"
  BY <1>9, <1>11
<1>13. \E u \in Scope : ScopeActor(u) = a /\ PIPELINE \in granted[u]
  BY <1>9, <1>12, HoldsPipeline
<1>14. QED
  BY <1>13 DEF HasName

\* A job that looks at the locks holds none.
LEMMA LooksWithout ==
  ASSUME JobsInv, NEW a \in Actor, Does(a, "look"), NEW n
  PROVE  ~HasName(a, n)
<1> SUFFICES ASSUME NEW s \in Scope, ScopeActor(s) = a, n \in granted[s]
             PROVE  FALSE
  BY DEF HasName
<1> DEFINE p == Program(a)
           i == at[a]
           e == Pairs(a)
           t == s[4]
<1>1. mode[a] = "run" /\ i \in 1..Len(p) /\ p[i][1] = "look"
  BY DoesIs
<1>2. s[3] = clustered /\ clustered \in BOOLEAN
  BY DEF JobsInv, Types, Unused
<1>3. t \in TakeSteps(p) /\ GrantsOf(a)[t] = granted[s]
  BY <1>2, There, Here
<1>4. Placed(p, e, i, GrantsOf(a), WorksOf(a)) /\ Nested(p, e)
  BY <1>1, OwnFacts DEF Lived
<1>5. t \in Open(p, GrantsOf(a)) /\ t # i
  BY <1>1, <1>3 DEF Open, TakeSteps
<1>6. t \in Around(p, e, i)
  BY <1>4, <1>5 DEF Placed
<1>7. PICK k : <<t, k>> \in e /\ t < i
  BY <1>6 DEF Around
<1>8. InTurn(p, e)
  BY <1>2, ProgramsWalk DEF Program, Pairs
<1>9. i < t /\ t \in 1..Len(p)
  BY <1>1, <1>3, <1>7, <1>8 DEF InTurn, TakeSteps
<1>10. QED
  BY <1>1, <1>7, <1>9

\* Only a close is the last step.
LEMMA NotLast ==
  ASSUME JobsInv, NEW a \in Actor, NEW op, Does(a, op), op # "close"
  PROVE  at[a] # Len(Program(a)) /\ mode[a] = "run" /\ at[a] \in Int
<1>1. mode[a] = "run" /\ at[a] \in 1..Len(Program(a)) /\ Program(a)[at[a]][1] = op
  BY DoesIs
<1>2. Nested(Program(a), Pairs(a)) /\ Len(Program(a)) \in 1..12
  BY OwnFacts DEF Nested
<1>3. \E t : <<t, Len(Program(a))>> \in Pairs(a)
  BY <1>2 DEF Nested
<1>4. Program(a)[Len(Program(a))][1] = "close"
  BY <1>2, <1>3 DEF Nested
<1>5. QED
  BY <1>1, <1>4

\* Whoever holds something is on its way.
LEMMA HoldersRun ==
  ASSUME JobsInv, NobodyDies, NEW a, NEW n, HasName(a, n)
  PROVE  a \in Actor /\ mode[a] \in {"run", "unwind"}
<1>1. PICK s \in Scope : ScopeActor(s) = a /\ n \in granted[s]
  BY DEF HasName
<1>2. s[3] = clustered /\ clustered \in BOOLEAN
  BY <1>1 DEF JobsInv, Types, Unused
<1>3. a \in Actor /\ s[4] \in TakeSteps(Program(a)) /\ GrantsOf(a)[s[4]] = granted[s]
  BY <1>1, <1>2, There, Here
<1>4. Open(Program(a), GrantsOf(a)) # {}
  BY <1>1, <1>3 DEF Open
<1>5. mode[a] \in Modes /\ mode[a] \notin {"idle", "over", "dead"}
  BY <1>3, <1>4, OwnFacts DEF Lived
<1>6. QED
  BY <1>3, <1>5 DEF Modes

\* A job that holds pipeline_refresh gets through.
LEMMA HolderGets ==
  ASSUME JobsInv, Rivals, crashes = 0, NEW a \in Main, HasName(a, PIPELINE)
  PROVE  GetsThrough(a)
<1>1. a \in Actor /\ mode[a] \in {"run", "unwind"}
  BY HoldersRun DEF Rivals
<1>2. CASE mode[a] = "run"
  BY <1>2 DEF GetsThrough
<1>3. CASE mode[a] = "unwind"
  <2>1. outcome[a] # "none" /\ outcome[a] # "refused"
    BY <1>1, <1>3 DEF Rivals, ReasonGiven, Unrefused
  <2>2. outcome[a] \in Outcomes
    BY <1>1 DEF JobsInv, Types
  <2>3. QED
    BY <2>1, <2>2 DEF GetsThrough, Outcomes
<1>4. QED
  BY <1>1, <1>2, <1>3

\* Behind a lock in force there is somebody else who gets through, or may.
LEMMA SomebodyElse ==
  ASSUME JobsInv, Rivals, crashes = 0, NEW a \in Main, mode[a] = "run",
         at[a] # Len(Program(a)), ~HasName(a, PIPELINE),
         NEW n \in LockName, live[n], ~HasName(a, n)
  PROVE  \E b \in Main : b # a /\ (GetsThrough(b) \/ HasItsOwn(b))
<1> DEFINE s == owner[n]
           b == ScopeActor(s)
<1>1. a \in Actor /\ outcome[a] = "none"
  BY DEF Rivals, ReasonGiven, Actor
<1>2. s \in Scope /\ (n \in granted[s] \/ mode[b] = "dead")
  BY DEF JobsInv, Leased
<1>3. b \in Actor
  BY <1>2, TakeOfScope
<1>4. n \in granted[s] /\ HasName(b, n)
  BY <1>2, <1>3 DEF Rivals, NobodyDies, HasName
<1>5. mode[b] \in {"run", "unwind"} /\ b # a
  BY <1>4, HoldersRun DEF Rivals
<1>6. ASSUME NEW c \in Main, HasName(c, PIPELINE)
      PROVE  \E d \in Main : d # a /\ (GetsThrough(d) \/ HasItsOwn(d))
  <2>1. GetsThrough(c) /\ c # a
    BY <1>6, HolderGets
  <2>2. QED
    BY <2>1
<1>7. CASE b \in Worker
  <2>1. Does(Parent(b), "join") /\ Parent(b) \in Main
    BY <1>5, <1>7, ActorIs DEF Rivals, Accompanied
  <2>2. HasName(Parent(b), PIPELINE)
    BY <2>1, JoinHolds
  <2>3. QED
    BY <1>6, <2>1, <2>2
<1>8. CASE b \in Main /\ n # "lot_manual_refresh"
  <2>1. \E u \in Scope : ScopeActor(u) = b /\ PIPELINE \in granted[u]
    BY <1>2, <1>4, <1>8, HoldsPipeline
  <2>2. HasName(b, PIPELINE)
    BY <2>1 DEF HasName
  <2>3. QED
    BY <1>6, <1>8, <2>2
<1>9. CASE b \in Main /\ n = "lot_manual_refresh"
  <2>1. CASE mode[b] = "run"
    <3>1. HasItsOwn(b)
      BY <1>4, <1>9, <2>1 DEF HasItsOwn
    <3>2. QED
      BY <1>5, <1>9, <3>1
  <2>2. CASE mode[b] = "unwind" /\ outcome[b] # "refused"
    <3>1. outcome[b] \in Outcomes /\ outcome[b] # "none"
      BY <1>3, <2>2 DEF JobsInv, Types, Rivals, ReasonGiven
    <3>2. GetsThrough(b)
      BY <2>2, <3>1 DEF GetsThrough, Outcomes
    <3>3. QED
      BY <1>5, <1>9, <3>2
  <2>3. CASE outcome[b] = "refused"
    <3>1. PICK c \in Main : GetsThrough(c) \/ HasItsOwn(c)
      BY <1>9, <2>3 DEF Rivals, OneGets
    <3>2. ~GetsThrough(a) /\ ~HasItsOwn(a)
      BY <1>1, <1>9 DEF GetsThrough, HasItsOwn
    <3>3. QED
      BY <3>1, <3>2
  <2>4. QED
    BY <1>5, <2>1, <2>2, <2>3
<1>10. QED
  BY <1>3, <1>7, <1>8, <1>9, ActorIs

-----------------------------------------------------------------------------
(* What a step makes of the actor that takes it. *)

\* It takes the way out.
TakesWayOut(x, why) ==
  /\ mode[x] = "run" /\ mode'[x] \in {"over", "unwind"} /\ outcome'[x] = why
  /\ \A n : HasName(x, n)' <=> HasName(x, n)

\* It goes on, to the next step or with the locks of this one.
CarriesOn(x) ==
  /\ mode[x] = "run" /\ mode'[x] = "run" /\ outcome'[x] = outcome[x]
  /\ at[x] # Len(Program(x))
  /\ \A n : HasName(x, n) => HasName(x, n)'

\* It closes a take, and ends with the last one.
ClosesTake(x) ==
  /\ mode[x] = "run" /\ \A n : HasName(x, n)' => HasName(x, n)
  /\ x \in Main => \A n \in {PIPELINE, "lot_manual_refresh"} :
       HasName(x, n) => HasName(x, n)' \/ at[x] = Len(Program(x))
  /\ \/ mode'[x] = "run" /\ outcome'[x] = outcome[x]
        /\ (at'[x] = at[x] \/ at[x] # Len(Program(x)))
     \/ mode'[x] = "over" /\ outcome'[x] = "done"

\* It goes on on its way out.
GoesOut(x) ==
  /\ mode[x] = "unwind" /\ mode'[x] \in {"unwind", "over"} /\ outcome'[x] = outcome[x]
  /\ \A n : HasName(x, n)' => HasName(x, n)

\* What a step leaves alone.
LEMMA OthersStay ==
  ASSUME JobsInv, NEW x \in Actor, StartJob(x) \/ JobStep(x)
  PROVE  /\ clustered' = clustered /\ crashes' = crashes
         /\ \A b \in Actor : b # x => at'[b] = at[b] /\ outcome'[b] = outcome[b]
         /\ \A b \in Actor : b # x => mode'[b] = mode[b] \/ (SpawnWorkers(x) /\ b \in WorkersOf(x))
         /\ \A b \in Actor : b # x => \A n : HasName(b, n)' <=> HasName(b, n)
<1>1. /\ Types /\ clustered \in BOOLEAN
      /\ at \in [Actor -> Int] /\ mode \in [Actor -> Modes] /\ outcome \in [Actor -> Outcomes]
      /\ granted \in [Scope -> SUBSET LockName]
  BY DEF JobsInv, Types
<1>2. ASSUME Proceed(x)
      PROVE  \A b \in Actor : b # x => at'[b] = at[b] /\ outcome'[b] = outcome[b] /\ mode'[b] = mode[b]
  BY <1>1, <1>2 DEF Proceed
<1>3. ASSUME NEW why, Unwind(x, why)
      PROVE  \A b \in Actor : b # x => outcome'[b] = outcome[b] /\ mode'[b] = mode[b]
  BY <1>1, <1>3 DEF Unwind
<1>4. ASSUME \A s \in Scope : ScopeActor(s) # x => granted'[s] = granted[s]
      PROVE  \A b \in Actor : b # x => \A n : HasName(b, n)' <=> HasName(b, n)
  BY <1>4 DEF HasName
<1>5. CASE StartJob(x)
  <2>1. UNCHANGED <<clustered, at, outcome, crashes, granted>> /\ mode' = [mode EXCEPT ![x] = "run"]
    BY <1>5 DEF StartJob, jobLocks
  <2>2. \A b \in Actor : b # x => mode'[b] = mode[b]
    BY <1>1, <2>1
  <2>3. QED
    BY <1>4, <2>1, <2>2
<1>6. CASE TakeLock(x)
  <2>1. /\ UNCHANGED <<clustered, mode, outcome, crashes>> /\ HereScope(x) \in Scope
        /\ ScopeActor(HereScope(x)) = x
        /\ granted' = [granted EXCEPT ![HereScope(x)] = @ \cup {NextName(HereScope(x))}]
        /\ at' = [at EXCEPT ![x] = IF HereScope(x) \in working' THEN @ + 1 ELSE @]
    <3>1. at[x] \in TakeSteps(Program(x))
      BY <1>6, DoesIs DEF TakeLock, TakeSteps
    <3>2. HereScope(x) \in Scope /\ ScopeActor(HereScope(x)) = x
      BY <1>1, <3>1, Here DEF HereScope
    <3>3. QED
      BY <1>6, <3>2 DEF TakeLock, Leases!Grant
  <2>2. \A s \in Scope : ScopeActor(s) # x => granted'[s] = granted[s]
    BY <1>1, <2>1
  <2>3. \A b \in Actor : b # x => at'[b] = at[b]
    BY <1>1, <2>1
  <2>4. QED
    BY <1>4, <2>1, <2>2, <2>3
<1>7. CASE RefuseLock(x)
  <2>1. UNCHANGED <<clustered, at, crashes, granted>> /\ Unwind(x, "refused")
    BY <1>7 DEF RefuseLock, jobLocks
  <2>2. QED
    BY <1>3, <1>4, <2>1
<1>8. CASE LetGo(x)
  <2>1. /\ UNCHANGED <<clustered, crashes>>
        /\ \A s \in Scope : ScopeActor(s) # x => granted'[s] = granted[s]
        /\ \/ UNCHANGED <<at, mode, outcome>>
           \/ Proceed(x)
           \/ /\ UNCHANGED <<at, outcome>>
              /\ \E m : mode' = [mode EXCEPT ![x] = m]
    <3>1. CASE Innermost(x) \in working
      BY <1>8, <3>1 DEF LetGo, Leases!Leave
    <3>2. CASE Innermost(x) \notin working
      <4>1. Innermost(x) \in Scope /\ ScopeActor(Innermost(x)) = x
        BY <1>8, <3>2, LastRelease DEF LetGo
      <4>2. granted' = [granted EXCEPT ![Innermost(x)] = @ \ {NextToLetGo(Innermost(x))}]
        BY <1>8, <3>2 DEF LetGo, Leases!GiveBack
      <4>3. \A s \in Scope : ScopeActor(s) # x => granted'[s] = granted[s]
        BY <1>1, <4>1, <4>2
      <4>4. QED
        BY <1>8, <3>2, <4>3 DEF LetGo
    <3>3. QED
      BY <3>1, <3>2
  <2>2. \A b \in Actor : b # x => at'[b] = at[b] /\ outcome'[b] = outcome[b] /\ mode'[b] = mode[b]
    BY <1>1, <1>2, <2>1
  <2>3. QED
    BY <1>4, <2>1, <2>2
<1>9. CASE FinishStage(x) \/ FindLot(x) \/ LookAtLocks(x) \/ JoinWorkers(x)
  <2>1. UNCHANGED <<clustered, crashes, granted>>
    BY <1>9 DEF FinishStage, FindLot, LookAtLocks, JoinWorkers, jobLocks
  <2>2. Proceed(x) \/ (\E why : Unwind(x, why) /\ UNCHANGED at)
    BY <1>9 DEF FinishStage, FindLot, LookAtLocks, JoinWorkers
  <2>3. QED
    BY <1>2, <1>3, <1>4, <2>1, <2>2
<1>10. CASE SpawnWorkers(x)
  <2>1. /\ UNCHANGED <<clustered, outcome, crashes, granted>>
        /\ at' = [at EXCEPT ![x] = @ + 1]
        /\ mode' = [b \in Actor |-> IF b \in WorkersOf(x) THEN "run" ELSE mode[b]]
    BY <1>10 DEF SpawnWorkers, jobLocks
  <2>2. \A b \in Actor : b # x => at'[b] = at[b] /\ (mode'[b] = mode[b] \/ b \in WorkersOf(x))
    BY <1>1, <2>1
  <2>3. QED
    BY <1>4, <1>10, <2>1, <2>2
<1>11. QED
  BY <1>5, <1>6, <1>7, <1>8, <1>9, <1>10 DEF JobStep

\* The names an actor has, when nothing is granted or let go.
LEMMA SameNames ==
  ASSUME granted' = granted, NEW x, NEW n
  PROVE  HasName(x, n)' <=> HasName(x, n)
BY DEF HasName

\* A job that closes a take, or lets one go on its way out.
LEMMA ClosingStep ==
  ASSUME JobsInv, NEW x \in Actor, LetGo(x)
  PROVE  ClosesTake(x) \/ GoesOut(x)
<1> DEFINE p == Program(x)
           i == at[x]
           m == mode[x]
<1>1. m = "unwind" \/ (m = "run" /\ i \in 1..Len(p) /\ p[i][1] = "close")
  BY DoesIs DEF LetGo
<1>2. clustered \in BOOLEAN /\ mode \in [Actor -> Modes] /\ at \in [Actor -> Int]
      /\ outcome \in [Actor -> Outcomes] /\ granted \in [Scope -> SUBSET LockName]
  BY DEF JobsInv, Types
<1>3. CASE Innermost(x) \in working
  <2>1. UNCHANGED <<granted, at, mode, outcome>>
    BY <1>3 DEF LetGo, Leases!Leave
  <2>2. \A n : HasName(x, n)' <=> HasName(x, n)
    BY <2>1, SameNames
  <2>3. QED
    BY <1>1, <2>1, <2>2 DEF ClosesTake, GoesOut
<1>4. CASE Innermost(x) \notin working
  <2> DEFINE s == Innermost(x)
             n == NextToLetGo(s)
  <2>1. s \in Scope /\ ScopeActor(s) = x /\ n \in granted[s]
    BY <1>4, LastRelease DEF LetGo
  <2>2. /\ granted' = [granted EXCEPT ![s] = @ \ {n}]
        /\ IF Cardinality(granted[s]) > 1
           THEN UNCHANGED <<at, mode, outcome>>
           ELSE IF mode[x] = "run"
           THEN Proceed(x)
           ELSE /\ mode' = [mode EXCEPT ![x] = IF Cardinality(OpenSteps(x)) = 1
                                               THEN "over" ELSE "unwind"]
                /\ UNCHANGED <<at, outcome>>
    BY <1>4 DEF LetGo, Leases!GiveBack
  <2> HIDE DEF s, n
  <2>3. \A u \in Scope : granted'[u] \subseteq granted[u] /\ (u # s => granted'[u] = granted[u])
    BY <1>2, <2>1, <2>2
  <2>4. \A y : HasName(x, y)' => HasName(x, y)
    BY <2>3 DEF HasName
  <2>5. granted'[s] = granted[s] \ {n}
    BY <1>2, <2>1, <2>2
  <2>6. \A y : HasName(x, y) /\ y # n => HasName(x, y)'
    BY <2>3, <2>5 DEF HasName
  <2>7. CASE m = "unwind"
    <3>1. mode'[x] \in {"unwind", "over"} /\ outcome'[x] = outcome[x]
      BY <1>2, <2>2, <2>7
    <3>2. QED
      BY <2>4, <2>7, <3>1 DEF GoesOut
  <2>8. CASE m = "run"
    <3>1. \/ mode'[x] = "run" /\ outcome'[x] = outcome[x] /\ (at'[x] = at[x] \/ at[x] # Len(Program(x)))
          \/ mode'[x] = "over" /\ outcome'[x] = "done"
      BY <1>2, <2>2, <2>8 DEF Proceed
    <3>2. ASSUME x \in Main, n \in {PIPELINE, "lot_manual_refresh"}
          PROVE  at[x] = Len(Program(x))
      <4>1. /\ Nested(p, Pairs(x)) /\ TakesLists(p, Pairs(x))
            /\ Lived(p, Pairs(x), i, "run", GrantsOf(x), WorksOf(x))
            /\ OpenSteps(x) = Open(p, GrantsOf(x))
        BY <2>8, OwnFacts
      <4>2. PICK t \in Open(p, GrantsOf(x)) : (\A u \in Open(p, GrantsOf(x)) : u <= t) /\ <<t, i>> \in Pairs(x)
        <5> DEFINE G == GrantsOf(x)
        <5>1. p[i][1] = "close"
          BY <1>1, <2>8
        <5> HIDE DEF p, i, m, G
        <5>2. PICK t \in Open(p, G) : \A u \in Open(p, G) : u <= t
          BY <4>1, <5>1, Closes DEF G
        <5>3. <<t, i>> \in Pairs(x)
          BY <4>1, <5>1, <5>2, Closes DEF G
        <5>4. QED
          BY <5>2, <5>3 DEF G
      <4>3. s = ScopeAt(x, t)
        BY <1>2, <4>1, <4>2, InnermostIs DEF s
      <4>4. s[4] = t
        BY <4>3 DEF ScopeAt
      <4>5. QED
        BY <2>1, <3>2, <4>2, <4>4, PipelineLast
    <3>3. QED
      BY <2>4, <2>6, <2>8, <3>1, <3>2 DEF ClosesTake
  <2>9. QED
    BY <1>1, <2>7, <2>8
<1>5. QED
  BY <1>3, <1>4

\* A job that goes on from a step without locks.
LEMMA ProceedingStep ==
  ASSUME JobsInv, NEW x \in Actor, NEW op, Does(x, op), op \notin {"take", "close"}, Proceed(x),
         granted' = granted
  PROVE  CarriesOn(x)
<1>1. at[x] # Len(Program(x)) /\ mode[x] = "run"
  BY NotLast
<1>2. mode' = mode /\ outcome' = outcome
  BY <1>1 DEF Proceed
<1>3. QED
  BY <1>1, <1>2, SameNames DEF CarriesOn

\* A job that takes the way out.
LEMMA UnwindingStep ==
  ASSUME JobsInv, NEW x \in Actor, mode[x] = "run", NEW why, Unwind(x, why), granted' = granted
  PROVE  TakesWayOut(x, why)
<1>1. mode \in [Actor -> Modes] /\ outcome \in [Actor -> Outcomes]
  BY DEF JobsInv, Types
<1>2. mode'[x] \in {"over", "unwind"} /\ outcome'[x] = why
  BY <1>1 DEF Unwind
<1>3. QED
  BY <1>2, SameNames DEF TakesWayOut

\* A step makes one of these of its actor.
LEMMA StepKinds ==
  ASSUME JobsInv, NEW x \in Actor, StartJob(x) \/ JobStep(x)
  PROVE  \/ StartJob(x) /\ mode[x] = "idle" /\ mode'[x] = "run" /\ outcome'[x] = outcome[x]
            /\ \A n : HasName(x, n)' <=> HasName(x, n)
         \/ CarriesOn(x)
         \/ TakesWayOut(x, "failed") \/ TakesWayOut(x, "notfound")
         \/ TakesWayOut(x, "refused") /\ (RefuseLock(x) \/ LookAtLocks(x))
         \/ ClosesTake(x) \/ GoesOut(x)
<1>1. mode \in [Actor -> Modes] /\ granted \in [Scope -> SUBSET LockName] /\ clustered \in BOOLEAN
  BY DEF JobsInv, Types
<1>2. CASE StartJob(x)
  <2>1. mode' = [mode EXCEPT ![x] = "run"] /\ mode[x] = "idle" /\ outcome' = outcome /\ granted' = granted
    BY <1>2 DEF StartJob, jobLocks
  <2>2. mode'[x] = "run"
    BY <1>1, <2>1
  <2>3. QED
    BY <1>2, <2>1, <2>2, SameNames
<1>3. CASE TakeLock(x)
  <2>1. Does(x, "take") /\ mode' = mode /\ outcome' = outcome
    BY <1>3 DEF TakeLock
  <2>2. at[x] # Len(Program(x)) /\ mode[x] = "run"
    BY <2>1, NotLast
  <2>3. granted' = [granted EXCEPT ![HereScope(x)] = @ \cup {NextName(HereScope(x))}]
    BY <1>3 DEF TakeLock, Leases!Grant
  <2>4. \A s \in Scope : granted[s] \subseteq granted'[s]
    BY <1>1, <2>3
  <2>5. \A n : HasName(x, n) => HasName(x, n)'
    BY <2>4 DEF HasName
  <2>6. QED
    BY <2>1, <2>2, <2>5 DEF CarriesOn
<1>4. CASE RefuseLock(x)
  <2>1. mode[x] = "run" /\ Unwind(x, "refused") /\ granted' = granted
    BY <1>4, NotLast DEF RefuseLock, jobLocks
  <2>2. QED
    BY <1>4, <2>1, UnwindingStep
<1>5. CASE LetGo(x)
  BY <1>5, ClosingStep
<1>6. CASE FinishStage(x)
  <2>1. Does(x, "work") /\ mode[x] = "run" /\ granted' = granted
        /\ (Proceed(x) \/ Unwind(x, "failed"))
    BY <1>6, NotLast DEF FinishStage, jobLocks
  <2>2. QED
    BY <2>1, ProceedingStep, UnwindingStep
<1>7. CASE FindLot(x)
  <2>1. Does(x, "find") /\ mode[x] = "run" /\ granted' = granted
        /\ (Proceed(x) \/ Unwind(x, "notfound"))
    BY <1>7, NotLast DEF FindLot, jobLocks
  <2>2. QED
    BY <2>1, ProceedingStep, UnwindingStep
<1>8. CASE LookAtLocks(x)
  <2>1. Does(x, "look") /\ mode[x] = "run" /\ granted' = granted
        /\ (Proceed(x) \/ Unwind(x, "refused"))
    BY <1>8, NotLast DEF LookAtLocks, jobLocks
  <2>2. QED
    BY <1>8, <2>1, ProceedingStep, UnwindingStep
<1>9. CASE JoinWorkers(x)
  <2>1. Does(x, "join") /\ mode[x] = "run" /\ granted' = granted
        /\ (Proceed(x) \/ Unwind(x, "failed"))
    BY <1>9, NotLast DEF JoinWorkers, jobLocks
  <2>2. QED
    BY <2>1, ProceedingStep, UnwindingStep
<1>10. CASE SpawnWorkers(x)
  <2>1. Does(x, "spawn") /\ outcome' = outcome /\ granted' = granted
        /\ mode' = [b \in Actor |-> IF b \in WorkersOf(x) THEN "run" ELSE mode[b]]
    BY <1>10 DEF SpawnWorkers, jobLocks
  <2>2. at[x] # Len(Program(x)) /\ mode[x] = "run"
    BY <2>1, NotLast
  <2>3. mode'[x] = "run"
    BY <2>1, <2>2
  <2>4. QED
    BY <2>1, <2>2, <2>3, SameNames DEF CarriesOn
<1>11. QED
  BY <1>2, <1>3, <1>4, <1>5, <1>6, <1>7, <1>8, <1>9, <1>10 DEF JobStep

\* The workers a job spawns are idle.
LEMMA SpawnedOnce ==
  ASSUME JobsInv, NEW x \in Actor, SpawnWorkers(x), NEW w \in WorkersOf(x)
  PROVE  mode[w] = "idle"
<1>1. at[x] \in 1..Len(Program(x)) /\ Program(x)[at[x]][1] = "spawn"
  BY DoesIs DEF SpawnWorkers
<1>2. x[2] = 0 /\ \A i \in 1..Len(Program(x)) : Program(x)[i][1] = "spawn" => i = at[x]
  BY <1>1, OwnFacts DEF Guarded
<1>3. w \in Worker /\ Parent(w) = x
  BY <1>2, ActorIs DEF WorkersOf, Parent
<1>4. SUFFICES ASSUME HasSpawned(w)
               PROVE  FALSE
  BY <1>3 DEF JobsInv, Spawned
<1>5. PICK i \in 1..Len(Program(x)) : i < at[x] /\ Program(x)[i][1] = "spawn"
  BY <1>3, <1>4 DEF HasSpawned
<1>6. QED
  BY <1>1, <1>2, <1>5

\* Reasons are given when, and only when, a job leaves its program.
LEMMA ReasonsStay ==
  ASSUME JobsInv, ReasonGiven, NobodyDies, NEW x \in Actor, StartJob(x) \/ JobStep(x)
  PROVE  ReasonGiven' /\ NobodyDies'
<1>1. /\ mode[x] \in {"idle", "run"} => outcome[x] = "none"
      /\ mode[x] \in {"unwind", "over"} => outcome[x] # "none"
  BY DEF ReasonGiven
<1>2. /\ mode'[x] \in {"idle", "run"} => outcome'[x] = "none"
      /\ mode'[x] \in {"unwind", "over"} => outcome'[x] # "none"
      /\ mode'[x] # "dead"
  BY <1>1, StepKinds DEF CarriesOn, TakesWayOut, ClosesTake, GoesOut
<1>3. ASSUME NEW b \in Actor, b # x
      PROVE  /\ mode'[b] \in {"idle", "run"} => outcome'[b] = "none"
             /\ mode'[b] \in {"unwind", "over"} => outcome'[b] # "none"
             /\ mode'[b] # "dead"
  <2>1. outcome'[b] = outcome[b]
    BY <1>3, OthersStay
  <2>2. CASE mode'[b] = mode[b]
    BY <2>1, <2>2 DEF ReasonGiven, NobodyDies
  <2>3. CASE SpawnWorkers(x) /\ b \in WorkersOf(x)
    <3>1. mode'[b] = "run"
      BY <1>3, <2>3 DEF SpawnWorkers
    <3>2. mode[b] = "idle"
      BY <1>3, <2>3, SpawnedOnce
    <3>3. QED
      BY <2>1, <3>1, <3>2 DEF ReasonGiven
  <2>4. QED
    BY <1>3, <2>2, <2>3, OthersStay
<1>4. QED
  BY <1>2, <1>3 DEF ReasonGiven, NobodyDies

\* An actor no step touches is still doing what it did.
LEMMA SameDoing ==
  ASSUME NEW a, NEW op, clustered' = clustered, at'[a] = at[a], mode'[a] = mode[a], Does(a, op)
  PROVE  Does(a, op)'
<1>1. Program(a)' = Program(a)
  BY SameProgram
<1>2. Step(a)' = Step(a)
  BY <1>1 DEF Step
<1>3. QED
  BY <1>2 DEF Does

\* Workers that are on their way are waited for.
LEMMA WaitingStays ==
  ASSUME JobsInv, Accompanied, NEW x \in Actor, StartJob(x) \/ JobStep(x)
  PROVE  Accompanied'
<1> SUFFICES ASSUME NEW w \in Worker, mode'[w] \in {"run", "unwind"}
             PROVE  Does(Parent(w), "join")'
  BY DEF Accompanied, Parent
<1>1. w \in Actor /\ Parent(w) \in Actor /\ Parent(w) \in Main /\ Parent(w) # w /\ w \notin Main
      /\ Parent(w) \notin Worker
  BY ActorIs DEF Actor
<1>2. clustered' = clustered /\ at \in [Actor -> Int] /\ clustered \in BOOLEAN
  BY OthersStay DEF JobsInv, Types
<1>3. CASE SpawnWorkers(x) /\ w \in WorkersOf(x)
  <2>1. mode[x] = "run" /\ at[x] \in 1..Len(Program(x)) /\ Program(x)[at[x]][1] = "spawn"
    BY <1>3, DoesIs DEF SpawnWorkers
  <2>2. at[x] < Len(Program(x)) /\ Program(x)[at[x] + 1][1] = "join"
    BY <1>2, <2>1, ProgramsWalk DEF InTurn, Program, Pairs
  <2>3. x[2] = 0
    BY <1>2, <2>1, ProgramIs DEF Guarded
  <2>4. x = Parent(w) /\ x \notin WorkersOf(x)
    BY <1>1, <1>3, <2>3, ActorIs DEF WorkersOf, Parent
  <2>5. at'[x] = at[x] + 1 /\ mode'[x] = mode[x]
    BY <1>2, <1>3, <2>4 DEF SpawnWorkers
  <2>6. Program(x)' = Program(x) /\ Parent(w)' = Parent(w)
    BY <1>2, SameProgram DEF Parent
  <2>7. Len(Program(x)) \in 1..12
    BY <1>2, ProgramIs DEF Nested
  <2>8. at[x] + 1 <= Len(Program(x))
    BY <2>1, <2>2, <2>7
  <2>9. Does(x, "join")'
    BY <2>1, <2>2, <2>5, <2>6, <2>8 DEF Does, Step
  <2>10. QED
    BY <2>4, <2>9
<1>4. CASE ~(SpawnWorkers(x) /\ w \in WorkersOf(x))
  <2>1. mode[w] \in {"run", "unwind"}
    <3>1. CASE w = x
      <4>1. ~StartJob(x)
        BY <1>1, <3>1 DEF StartJob
      <4>2. QED
        BY <3>1, <4>1, StepKinds DEF CarriesOn, TakesWayOut, ClosesTake, GoesOut
    <3>2. CASE w # x
      BY <1>1, <1>4, <3>2, OthersStay
    <3>3. QED
      BY <3>1, <3>2
  <2>2. Does(Parent(w), "join")
    BY <2>1 DEF Accompanied
  <2>3. Parent(w) # x
    <3> SUFFICES ASSUME Parent(w) = x
                 PROVE  FALSE
      OBVIOUS
    <3>1. mode[x] = "run" /\ Step(x)[1] = "join"
      BY <2>2 DEF Does
    <3>2. ~StartJob(x) /\ ~LetGo(x) /\ ~TakeLock(x) /\ ~RefuseLock(x) /\ ~FinishStage(x)
          /\ ~FindLot(x) /\ ~LookAtLocks(x) /\ ~SpawnWorkers(x)
      BY <3>1 DEF StartJob, LetGo, TakeLock, RefuseLock, FinishStage, FindLot, LookAtLocks,
                  SpawnWorkers, Does
    <3>3. JoinWorkers(x)
      BY <3>2 DEF JobStep
    <3>4. w \in WorkersOf(x)
      BY DEF WorkersOf, Parent
    <3>5. mode[w] \in {"over", "dead"}
      BY <3>3, <3>4 DEF JoinWorkers
    <3>6. QED
      BY <2>1, <3>5
  <2>4. at'[Parent(w)] = at[Parent(w)] /\ mode'[Parent(w)] = mode[Parent(w)]
    <3>1. Parent(w) \notin WorkersOf(x)
      BY <1>1 DEF WorkersOf
    <3>2. QED
      BY <1>1, <2>3, <3>1, OthersStay
  <2>5. QED
    BY <1>2, <2>2, <2>4, SameDoing
<1>5. QED
  BY <1>3, <1>4

\* Only who holds nothing that matters is refused.
LEMMA RefusedWithout ==
  ASSUME JobsInv, Rivals, crashes = 0, NEW x \in Main, RefuseLock(x) \/ LookAtLocks(x),
         TakesWayOut(x, "refused")
  PROVE  /\ mode[x] = "run" /\ at[x] # Len(Program(x)) /\ ~HasName(x, PIPELINE)
         /\ \E n \in LockName : live[n] /\ ~HasName(x, n)
<1>0. x \in Actor /\ clustered \in BOOLEAN
  BY DEF Actor, JobsInv, Types
<1>1. CASE RefuseLock(x)
  <2> DEFINE n == NextName(HereScope(x))
  <2>1. Does(x, "take") /\ live[n]
    BY <1>1 DEF RefuseLock
  <2>2. n \in LockName /\ \A t \in OpenSteps(x) : n \notin granted[ScopeAt(x, t)]
    BY <1>0, <2>1, AsksFor
  <2> HIDE DEF n
  <2>3. ASSUME NEW m, HasName(x, m)
        PROVE  \E t \in OpenSteps(x) : m \in granted[ScopeAt(x, t)]
    <3>1. PICK s \in Scope : ScopeActor(s) = x /\ m \in granted[s]
      BY <2>3 DEF HasName
    <3>2. s[3] = clustered
      BY <3>1 DEF JobsInv, Unused
    <3>3. s[4] \in TakeSteps(Program(x)) /\ s = ScopeAt(x, s[4])
      BY <3>1, <3>2, There
    <3>4. s[4] \in OpenSteps(x)
      BY <3>1, <3>3 DEF OpenSteps
    <3>5. QED
      BY <3>1, <3>3, <3>4
  <2>4. ~HasName(x, n)
    BY <2>2, <2>3
  <2>5. ~HasName(x, PIPELINE)
    <3> SUFFICES ASSUME HasName(x, PIPELINE)
                 PROVE  FALSE
      OBVIOUS
    <3> DEFINE s == owner[n]
               b == ScopeActor(s)
    <3>1. \E t \in OpenSteps(x) : PIPELINE \in granted[ScopeAt(x, t)]
      BY <2>3
    <3>2. b \in Worker \/ mode[b] = "dead"
      BY <1>0, <2>1, <3>1, NotUnderPipeline DEF RefusedUnderPipeline, n
    <3>3. s \in Scope /\ (n \in granted[s] \/ mode[b] = "dead")
      BY <2>1, <2>2 DEF JobsInv, Leased
    <3>4. b \in Actor
      BY <3>3, TakeOfScope
    <3>5. b \in Worker /\ n \in granted[s]
      BY <3>2, <3>3, <3>4 DEF Rivals, NobodyDies
    <3>6. HasName(b, n)
      BY <3>3, <3>5 DEF HasName
    <3>7. mode[b] \in {"run", "unwind"}
      BY <3>6, HoldersRun DEF Rivals
    <3>8. Does(Parent(b), "join") /\ Parent(b) \in Main
      BY <3>5, <3>7, ActorIs DEF Rivals, Accompanied
    <3>9. HasName(Parent(b), PIPELINE)
      BY <3>8, JoinHolds
    <3>10. Parent(b) = x
      BY <3>9, OneHolder DEF HasName
    <3>11. QED
      BY <2>1, <3>8, <3>10 DEF Does
  <2>6. QED
    BY <1>0, <2>1, <2>2, <2>4, <2>5, NotLast
<1>2. CASE LookAtLocks(x)
  <2>1. Does(x, "look")
    BY <1>2 DEF LookAtLocks
  <2>2. at[x] # Len(Program(x)) /\ mode[x] = "run" /\ \A n : ~HasName(x, n)
    BY <1>0, <2>1, NotLast, LooksWithout
  <2>3. \E n \in NameSet(GuardNames(clustered)) : live[n]
    <3> SUFFICES ASSUME ~ \E n \in NameSet(GuardNames(clustered)) : live[n]
                 PROVE  FALSE
      OBVIOUS
    <3>1. Proceed(x)
      BY <1>2 DEF LookAtLocks
    <3>2. outcome' = outcome
      BY <2>2, <3>1 DEF Proceed
    <3>3. outcome[x] = "none" /\ outcome'[x] = "refused"
      BY <1>0, <2>2 DEF Rivals, ReasonGiven, TakesWayOut
    <3>4. QED
      BY <3>2, <3>3
  <2>4. NameSet(GuardNames(clustered)) \subseteq LockName
    BY <1>0, GuardNamesIs DEF Listing, NameSet
  <2>5. QED
    BY <2>2, <2>3, <2>4
<1>3. QED
  BY <1>1, <1>2

\* A job that holds pipeline_refresh is not refused.
LEMMA UnrefusedStays ==
  ASSUME JobsInv, Rivals, crashes = 0, NEW x \in Actor, StartJob(x) \/ JobStep(x)
  PROVE  Unrefused'
<1> SUFFICES ASSUME NEW a \in Main, HasName(a, PIPELINE)', outcome'[a] = "refused"
             PROVE  FALSE
  BY DEF Unrefused, HasName
<1>1. a \in Actor
  BY DEF Actor
<1>2. CASE a # x
  <2>1. HasName(a, PIPELINE) /\ outcome[a] = "refused"
    BY <1>1, <1>2, OthersStay
  <2>2. QED
    BY <2>1 DEF Rivals, Unrefused
<1>3. CASE a = x
  <2>1. CASE TakesWayOut(x, "refused") /\ (RefuseLock(x) \/ LookAtLocks(x))
    BY <1>3, <2>1, RefusedWithout DEF TakesWayOut
  <2>2. CASE GoesOut(x)
    BY <1>3, <2>2 DEF GoesOut, Rivals, Unrefused
  <2>3. CASE CarriesOn(x) \/ ClosesTake(x) \/ (StartJob(x) /\ mode[x] = "idle" /\ outcome'[x] = outcome[x])
    BY <1>1, <1>3, <2>3 DEF CarriesOn, ClosesTake, Rivals, ReasonGiven
  <2>4. CASE TakesWayOut(x, "failed") \/ TakesWayOut(x, "notfound")
    BY <1>3, <2>4 DEF TakesWayOut
  <2>5. QED
    BY <2>1, <2>2, <2>3, <2>4, StepKinds
<1>4. QED
  BY <1>2, <1>3

\* Somebody else who gets through, or may, still does.
LEMMA OthersGet ==
  ASSUME JobsInv, NEW x \in Actor, StartJob(x) \/ JobStep(x), NEW b \in Main, b # x,
         GetsThrough(b) \/ HasItsOwn(b)
  PROVE  (GetsThrough(b) \/ HasItsOwn(b))'
<1>1. b \in Actor /\ b \notin Worker
  BY ActorIs DEF Actor
<1>2. /\ at'[b] = at[b] /\ outcome'[b] = outcome[b] /\ mode'[b] = mode[b] /\ clustered' = clustered
      /\ \A n : HasName(b, n)' <=> HasName(b, n)
  BY <1>1, OthersStay DEF WorkersOf
<1>3. Program(b)' = Program(b)
  BY <1>2, SameProgram
<1>4. GetsThrough(b) => GetsThrough(b)'
  BY <1>2, <1>3 DEF GetsThrough
<1>5. HasItsOwn(b) => HasItsOwn(b)'
  BY <1>2 DEF HasItsOwn
<1>6. QED
  BY <1>4, <1>5

\* Who gets through, or may, still does after a step of its own, unless it is
\* refused by that step.
LEMMA ItselfGets ==
  ASSUME JobsInv, Rivals, crashes = 0, NEW x \in Main, StartJob(x) \/ JobStep(x),
         GetsThrough(x) \/ HasItsOwn(x),
         ~(TakesWayOut(x, "refused") /\ (RefuseLock(x) \/ LookAtLocks(x)))
  PROVE  (GetsThrough(x) \/ HasItsOwn(x))'
<1>1. x \in Actor
  BY DEF Actor
<1>2. clustered' = clustered /\ Program(x)' = Program(x)
  BY <1>1, OthersStay, SameProgram
<1>3. /\ mode[x] \in {"idle", "run"} => outcome[x] = "none"
  BY <1>1 DEF Rivals, ReasonGiven
<1>4. mode[x] # "idle"
  BY <1>3 DEF GetsThrough, HasItsOwn
<1>5. CASE CarriesOn(x)
  <2>1. HasName(x, PIPELINE) \/ HasName(x, "lot_manual_refresh")
    BY <1>3, <1>5 DEF CarriesOn, GetsThrough, HasItsOwn
  <2>2. mode'[x] = "run" /\ (HasName(x, PIPELINE)' \/ HasName(x, "lot_manual_refresh")')
    BY <1>5, <2>1 DEF CarriesOn
  <2>3. QED
    BY <2>2 DEF GetsThrough, HasItsOwn
<1>6. CASE TakesWayOut(x, "failed") \/ TakesWayOut(x, "notfound")
  BY <1>6 DEF TakesWayOut, GetsThrough
<1>7. CASE ClosesTake(x)
  <2>1. HasName(x, PIPELINE) \/ HasName(x, "lot_manual_refresh") \/ at[x] = Len(Program(x))
    BY <1>3, <1>7 DEF ClosesTake, GetsThrough, HasItsOwn
  <2>2. \/ HasName(x, PIPELINE)' \/ HasName(x, "lot_manual_refresh")' \/ at[x] = Len(Program(x))
    BY <1>7, <2>1 DEF ClosesTake
  <2>3. CASE mode'[x] = "over" /\ outcome'[x] = "done"
    BY <2>3 DEF GetsThrough
  <2>4. CASE mode'[x] = "run" /\ (at'[x] = at[x] \/ at[x] # Len(Program(x)))
    BY <1>2, <2>2, <2>4 DEF GetsThrough, HasItsOwn
  <2>5. QED
    BY <1>7, <2>3, <2>4 DEF ClosesTake
<1>8. CASE GoesOut(x)
  <2>1. outcome'[x] \in {"done", "failed", "notfound"}
    BY <1>8 DEF GoesOut, GetsThrough, HasItsOwn
  <2>2. QED
    BY <2>1 DEF GetsThrough
<1>9. QED
  BY <1>1, <1>4, <1>5, <1>6, <1>7, <1>8, StepKinds

\* Whoever is refused leaves somebody who gets through.
LEMMA OneGetsStays ==
  ASSUME JobsInv, Rivals, crashes = 0, NEW x \in Actor, StartJob(x) \/ JobStep(x)
  PROVE  OneGets'
<1> SUFFICES ASSUME NEW a \in Main, outcome'[a] = "refused"
             PROVE  \E b \in Main : (GetsThrough(b) \/ HasItsOwn(b))'
  BY DEF OneGets
<1>1. a \in Actor
  BY DEF Actor
<1>2. CASE x \in Main /\ TakesWayOut(x, "refused") /\ (RefuseLock(x) \/ LookAtLocks(x))
  <2>1. /\ mode[x] = "run" /\ at[x] # Len(Program(x)) /\ ~HasName(x, PIPELINE)
        /\ \E n \in LockName : live[n] /\ ~HasName(x, n)
    BY <1>2, RefusedWithout
  <2>2. PICK b \in Main : b # x /\ (GetsThrough(b) \/ HasItsOwn(b))
    BY <1>2, <2>1, SomebodyElse
  <2>3. QED
    BY <2>2, OthersGet
<1>3. CASE ~(x \in Main /\ TakesWayOut(x, "refused") /\ (RefuseLock(x) \/ LookAtLocks(x)))
  <2>1. outcome[a] = "refused"
    <3>1. CASE a # x
      BY <1>1, <3>1, OthersStay
    <3>2. CASE a = x
      BY <1>3, <3>2, StepKinds DEF CarriesOn, TakesWayOut, ClosesTake, GoesOut
    <3>3. QED
      BY <3>1, <3>2
  <2>2. PICK b \in Main : GetsThrough(b) \/ HasItsOwn(b)
    BY <2>1 DEF Rivals, OneGets
  <2>3. CASE b # x
    BY <2>2, <2>3, OthersGet
  <2>4. CASE b = x
    BY <1>3, <2>2, <2>4, ItselfGets
  <2>5. QED
    BY <2>3, <2>4
<1>4. QED
  BY <1>2, <1>3

\* The rivals, over every step.
LEMMA RivalsStep == JobsInv /\ Rivals /\ [JobsNext]_jobVars => Rivals'
<1> SUFFICES ASSUME JobsInv, Rivals, [JobsNext]_jobVars, crashes' = 0
             PROVE  (ReasonGiven /\ Accompanied /\ Unrefused /\ OneGets /\ NobodyDies)'
  BY DEF Rivals
<1>1. crashes \in Nat
  BY JobAssumption DEF JobsInv, Types
<1>2. ASSUME NEW x \in Actor, StartJob(x) \/ JobStep(x)
      PROVE  (ReasonGiven /\ Accompanied /\ Unrefused /\ OneGets /\ NobodyDies)'
  <2>1. crashes = 0
    BY <1>2, OthersStay
  <2>2. ReasonGiven /\ Accompanied /\ NobodyDies
    BY <2>1 DEF Rivals
  <2>3. QED
    BY <1>2, <2>1, <2>2, ReasonsStay, WaitingStays, UnrefusedStays, OneGetsStays
<1>3. ASSUME NEW x \in Actor, CrashJob(x) \/ WorkerTimeout(x)
      PROVE  FALSE
  <2>1. crashes' = crashes + 1
    BY <1>3 DEF CrashJob, WorkerTimeout, Dies
  <2>2. QED
    BY <1>1, <2>1
<1>4. ASSUME NEW s \in Scope, ExpireLeases(s)
      PROVE  FALSE
  <2>1. mode[ScopeActor(s)] = "dead" /\ crashes' = crashes
    BY <1>4 DEF ExpireLeases
  <2>2. ScopeActor(s) \in Actor /\ crashes = 0
    BY <2>1, TakeOfScope
  <2>3. QED
    BY <2>1, <2>2 DEF Rivals, NobodyDies
<1>5. CASE UNCHANGED jobVars
  <2>1. /\ clustered' = clustered /\ at' = at /\ mode' = mode /\ outcome' = outcome
        /\ crashes' = crashes /\ granted' = granted
    BY <1>5 DEF jobVars, jobLocks
  <2>2. ReasonGiven /\ Accompanied /\ Unrefused /\ OneGets /\ NobodyDies
    BY <2>1 DEF Rivals
  <2>3. \A b, n : HasName(b, n)' <=> HasName(b, n)
    BY <2>1, SameNames
  <2>4. \A b : Program(b)' = Program(b)
    BY <2>1, SameProgram
  <2>5. ReasonGiven' /\ NobodyDies'
    BY <2>1, <2>2 DEF ReasonGiven, NobodyDies
  <2>6. Accompanied'
    BY <2>1, <2>2, SameDoing DEF Accompanied, Parent
  <2>7. Unrefused'
    BY <2>1, <2>2, <2>3 DEF Unrefused
  <2>8. \A b : (GetsThrough(b) => GetsThrough(b)') /\ (HasItsOwn(b) => HasItsOwn(b)')
    BY <2>1, <2>3, <2>4 DEF GetsThrough, HasItsOwn
  <2>9. OneGets'
    BY <2>1, <2>2, <2>8 DEF OneGets
  <2>10. QED
    BY <2>5, <2>6, <2>7, <2>9
<1>6. QED
  BY <1>2, <1>3, <1>4, <1>5 DEF JobsNext

-----------------------------------------------------------------------------
(* The theorems. *)

\* Every reachable state is as the invariant says.
THEOREM JobsInvariant == JobsSpec => []JobsInv
<1>1. JobsInit => JobsInv
  BY JobsInvInit
<1>2. JobsInv /\ [JobsNext]_jobVars => JobsInv'
  BY JobsInvStep
<1>3. QED
  BY <1>1, <1>2, PTL DEF JobsSpec

\* The variables keep their types, and a scope is granted only what it asks for.
THEOREM JobsTypes == JobsSpec => []JobsTypeOK
<1>1. JobsInv => JobsTypeOK
  <2> SUFFICES ASSUME JobsInv
               PROVE  JobsTypeOK
    OBVIOUS
  <2>1. Types
    BY DEF JobsInv
  <2>2. at \in [Actor -> 1..MaxSteps]
    <3>1. ASSUME NEW a \in Actor
          PROVE  at[a] \in 1..MaxSteps
      <4>1. at[a] \in 1..(Len(Program(a)) + 1) /\ Len(Program(a)) \in 1..12
        BY OwnFacts DEF Lived, Nested
      <4>2. QED
        <5> DEFINE L == Len(Program(a))
        <5>1. at[a] \in 1..(L + 1) /\ L \in 1..12
          BY <4>1
        <5> HIDE DEF L
        <5>2. QED
          BY <5>1 DEF MaxSteps
    <3>2. QED
      BY <2>1, <3>1 DEF Types
  <2>3. \A s \in Scope : granted[s] \subseteq ScopeNeeds[s]
    BY GrantedAreNeeded
  <2>4. QED
    BY <2>1, <2>2, <2>3 DEF JobsTypeOK, Types, Modes, Outcomes
<1>2. QED
  BY <1>1, JobsInvariant, PTL

\* Whatever way out a job takes, and whatever is refused or fails or times out on
\* the way: when its process has ended by itself none of its locks is in force
\* (db-lock.ts:145-148, 188-191).
THEOREM EndedJobsHoldNothing == JobsSpec => []EndedHoldsNothing
<1>1. JobsInv => EndedHoldsNothing
  <2> SUFFICES ASSUME JobsInv, NEW n \in LockName, live[n]
               PROVE  mode[ScopeActor(owner[n])] \in {"run", "unwind", "dead"}
    BY DEF EndedHoldsNothing
  <2> DEFINE s == owner[n]
             a == ScopeActor(s)
  <2>1. s \in Scope /\ (n \in granted[s] \/ mode[a] = "dead")
    BY DEF JobsInv, Leased
  <2>2. CASE n \in granted[s]
    <3>1. s[3] = clustered /\ clustered \in BOOLEAN
      BY <2>1, <2>2 DEF JobsInv, Unused, Types
    <3>2. a \in Actor /\ s[4] \in TakeSteps(Program(a)) /\ s = ScopeAt(a, s[4])
      BY <2>1, <3>1, There
    <3>3. GrantsOf(a)[s[4]] = granted[s]
      BY <3>1, <3>2, Here
    <3>4. Open(Program(a), GrantsOf(a)) # {}
      BY <2>2, <3>2, <3>3 DEF Open
    <3>5. mode[a] \in Modes /\ mode[a] \notin {"idle", "over", "dead"}
      BY <3>2, <3>4, OwnFacts DEF Lived
    <3>6. QED
      BY <3>5 DEF Modes
  <2>3. QED
    BY <2>1, <2>2
<1>2. QED
  BY <1>1, JobsInvariant, PTL

\* No two jobs are ever at a stage together, and no two processes ever work on the
\* photos of one shard, whichever of them crash, time out or outlive their cluster
\* (README.md:310, lot-refresh.ts:62-70).
THEOREM StagesExcludeEachOther == JobsSpec => []StagesExclusive
<1>1. JobsInv => StagesExclusive
  <2> SUFFICES ASSUME JobsInv, NEW a \in Actor, NEW b \in Actor, a # b,
                      Does(a, "work"), Does(b, "work")
               PROVE  /\ a \in Worker \/ b \in Worker
                      /\ ShardsOf(a) \cap ShardsOf(b) = {}
    BY DEF StagesExclusive
  <2>1. ASSUME NEW n \in StageLocks(a, clustered) \cap StageLocks(b, clustered),
               (a[2] = 0 \/ clustered) /\ (b[2] = 0 \/ clustered)
        PROVE  FALSE
    <3>1. PICK s \in Scope : ScopeActor(s) = a /\ n \in granted[s]
      BY <2>1, StageHolds
    <3>2. PICK u \in Scope : ScopeActor(u) = b /\ n \in granted[u]
      BY <2>1, StageHolds
    <3>3. QED
      BY <3>1, <3>2, OneHolder
  <2>2. a \in Worker \/ b \in Worker
    <3> SUFFICES ASSUME a \notin Worker, b \notin Worker
                 PROVE  FALSE
      OBVIOUS
    <3>1. a[2] = 0 /\ b[2] = 0
      BY ActorIs
    <3>2. PIPELINE \in StageLocks(a, clustered) \cap StageLocks(b, clustered)
      BY <3>1 DEF StageLocks
    <3>3. QED
      BY <2>1, <3>1, <3>2
  <2>3. mode[a] # "idle" /\ mode[b] # "idle"
    BY DEF Does
  <2>4. clustered
    BY <2>2, <2>3, WorkersCluster
  <2>5. ASSUME NEW x \in ShardsOf(a) \cap ShardsOf(b)
        PROVE  FALSE
    <3>1. WorkerLocks[x] \in StageLocks(a, clustered) \cap StageLocks(b, clustered)
      BY <2>4 DEF StageLocks
    <3>2. QED
      BY <2>1, <2>4, <3>1
  <2>6. QED
    BY <2>2, <2>5
<1>2. QED
  BY <1>1, JobsInvariant, PTL

\* A job that holds pipeline_refresh is refused a further lock only by an orphaned
\* worker or by the lease of a dead process, never by another job on its way, and
\* never by itself (run-once.ts:104-129).
THEOREM PipelineDecides == JobsSpec => []RefusedUnderPipeline
BY NotUnderPipeline, JobsInvariant, PTL

\* Jobs that start together never all refuse each other: as long as no process has
\* died, whenever everything has settled some job that started was not refused,
\* whichever jobs they were and whatever failed (run-once.ts:104-129,
\* lot-refresh.ts:178-190).
THEOREM NotAllRefused == JobsSpec => []SomebodyGetsThrough
<1>1. JobsInit => JobsInv /\ Rivals
  <2> SUFFICES ASSUME JobsInit
               PROVE  JobsInv /\ Rivals
    OBVIOUS
  <2>1. JobsInv
    BY JobsInvInit
  <2>2. /\ mode = [a \in Actor |-> "idle"] /\ outcome = [a \in Actor |-> "none"]
        /\ granted = [s \in Scope |-> {}]
    BY DEF JobsInit, Leases!Init
  <2>3. \A a, n : ~HasName(a, n)
    BY <2>2 DEF HasName
  <2>4. \A w \in Worker : w \in Actor
    BY DEF Actor
  <2>5. \A a \in Main : a \in Actor
    BY DEF Actor
  <2>6. QED
    BY <2>1, <2>2, <2>3, <2>4, <2>5 DEF Rivals, ReasonGiven, Accompanied, Unrefused, OneGets, NobodyDies
<1>2. JobsInv /\ Rivals /\ [JobsNext]_jobVars => JobsInv' /\ Rivals'
  BY JobsInvStep, RivalsStep
<1>3. JobsInv /\ Rivals => SomebodyGetsThrough
  <2> SUFFICES ASSUME JobsInv, Rivals, crashes = 0,
                      \A a \in Actor : mode[a] \in {"idle", "over"},
                      NEW a \in Main, mode[a] # "idle"
               PROVE  \E b \in Main : mode[b] # "idle" /\ outcome[b] # "refused"
    BY DEF SomebodyGetsThrough
  <2>1. \A b \in Main : b \in Actor
    BY DEF Actor
  <2>2. CASE outcome[a] # "refused"
    BY <2>2
  <2>3. CASE outcome[a] = "refused"
    <3>1. PICK b \in Main : GetsThrough(b) \/ HasItsOwn(b)
      BY <2>3 DEF Rivals, OneGets
    <3>2. mode[b] \in {"idle", "over"}
      BY <2>1
    <3>3. outcome[b] \in {"done", "failed", "notfound"}
      BY <3>1, <3>2 DEF GetsThrough, HasItsOwn
    <3>4. mode[b] # "idle"
      BY <2>1, <3>3 DEF Rivals, ReasonGiven
    <3>5. QED
      BY <3>3, <3>4
  <2>4. QED
    BY <2>2, <2>3
<1>4. QED
  BY <1>1, <1>2, <1>3, PTL DEF JobsSpec

-----------------------------------------------------------------------------
(* The lock service as the jobs use it. *)

\* The name a job asks for next is one of those of its take.
LEMMA AsksItsOwn ==
  ASSUME JobsInv, NEW a \in Actor, Does(a, "take")
  PROVE  /\ HereScope(a) \in Scope /\ ScopeActor(HereScope(a)) = a
         /\ NextName(HereScope(a)) \in ScopeNeeds[HereScope(a)]
<1>1. /\ at[a] \in TakeSteps(Program(a))
      /\ NextName(HereScope(a)) \in NameSet(Program(a)[at[a]][2])
  BY AsksFor
<1>2. clustered \in BOOLEAN
  BY DEF JobsInv, Types
<1>3. QED
  BY <1>1, <1>2, Here DEF HereScope

\* A job that takes a lock is granted it.
LEMMA TakingGrants ==
  ASSUME JobsInv, NEW a \in Actor, TakeLock(a)
  PROVE  Leases!Next
<1>1. Does(a, "take") /\ Leases!Grant(HereScope(a), NextName(HereScope(a)))
  BY DEF TakeLock
<1>2. HereScope(a) \in Scope /\ NextName(HereScope(a)) \in ScopeNeeds[HereScope(a)]
  BY <1>1, AsksItsOwn
<1>3. QED
  BY <1>1, <1>2, Zenon DEF Leases!Next

\* A job that lets its innermost take go leaves it, and then gives its names back.
LEMMA LettingGoGivesBack ==
  ASSUME JobsInv, NEW a \in Actor, LetGo(a)
  PROVE  Leases!Next
<1> DEFINE s == Innermost(a)
           n == NextToLetGo(s)
<1>1. CASE s \in working
  <2>1. Leases!Leave(s)
    BY <1>1 DEF LetGo
  <2>2. s \in Scope
    BY <1>1 DEF JobsInv, Types
  <2> HIDE DEF s
  <2>3. QED
    BY <2>1, <2>2, Zenon DEF Leases!Next
<1>2. CASE s \notin working
  <2>1. Leases!GiveBack(s, n) /\ (Does(a, "close") \/ mode[a] = "unwind")
    BY <1>2 DEF LetGo
  <2>2. s \in Scope /\ n \in granted[s]
    BY <1>2, <2>1, LastRelease
  <2>3. n \in ScopeNeeds[s]
    BY <2>2, GrantedAreNeeded
  <2> HIDE DEF s, n
  <2>4. QED
    BY <2>1, <2>2, <2>3, Zenon DEF Leases!Next
<1>3. QED
  BY <1>1, <1>2

\* A process that dies abandons every take it is in.
LEMMA DyingAbandons ==
  ASSUME JobsInv, NEW a \in Actor, Dies(a)
  PROVE  Leases!Next
<1> DEFINE gone == {s \in Scope : ScopeProcess[s] = a}
<1>1. \A s \in Scope : s \in gone <=> ScopeActor(s) = a
  BY DEF ScopeProcess
<1>2. working \subseteq Scope /\ Leased
  BY DEF JobsInv, Types
<1>3. /\ granted' = [s \in Scope |-> IF s \in gone THEN {} ELSE granted[s]]
      /\ working' = working \ gone
  <2>1. /\ granted' = [s \in Scope |-> IF ScopeActor(s) = a THEN {} ELSE granted[s]]
        /\ working' = {s \in working : ScopeActor(s) # a}
    BY DEF Dies
  <2> HIDE DEF gone
  <2>2. QED
    BY <1>1, <1>2, <2>1
<1>4. \/ UNCHANGED <<owner, live>>
      \/ \E s \in gone : \E n \in ScopeNeeds[s] :
           /\ ~live[n]
           /\ owner' = [owner EXCEPT ![n] = s]
           /\ live' = [live EXCEPT ![n] = TRUE]
      \/ \E s \in gone : \E n \in granted[s] :
           /\ owner[n] = s
           /\ live' = [live EXCEPT ![n] = FALSE]
           /\ UNCHANGED owner
  <2> HIDE DEF gone
  <2>1. CASE /\ Does(a, "take") /\ ~live[NextName(HereScope(a))]
             /\ live' = [live EXCEPT ![NextName(HereScope(a))] = TRUE]
             /\ owner' = [owner EXCEPT ![NextName(HereScope(a))] = HereScope(a)]
    <3>1. /\ HereScope(a) \in gone
          /\ NextName(HereScope(a)) \in ScopeNeeds[HereScope(a)]
      BY <1>1, <2>1, AsksItsOwn
    <3>2. QED
      BY <2>1, <3>1
  <2>2. CASE /\ Does(a, "close") \/ mode[a] = "unwind"
             /\ Innermost(a) \notin working
             /\ live' = [live EXCEPT ![NextToLetGo(Innermost(a))] = FALSE]
             /\ UNCHANGED owner
    <3>1. /\ Innermost(a) \in Scope /\ ScopeActor(Innermost(a)) = a
          /\ NextToLetGo(Innermost(a)) \in granted[Innermost(a)]
      BY <2>2, LastRelease
    <3>2. Innermost(a) \in gone /\ owner[NextToLetGo(Innermost(a))] = Innermost(a)
      BY <1>1, <1>2, <3>1 DEF Leased
    <3>3. QED
      BY <2>2, <3>1, <3>2
  <2>3. QED
    BY <2>1, <2>2 DEF Dies, LastStatement
<1>5. Leases!Abandon(a)
  BY <1>3, <1>4, Zenon DEF Leases!Abandon
<1>6. QED
  BY <1>5, Zenon DEF Leases!Next

\* The leases of a dead process lapse.
LEMMA ExpiringLapses ==
  ASSUME NEW s \in Scope, ExpireLeases(s)
  PROVE  Leases!Next
<1> DEFINE gone == {n \in LockName : owner[n] = s}
<1>1. live' = [n \in LockName |-> live[n] /\ n \notin gone]
  BY DEF ExpireLeases
<1>2. UNCHANGED <<owner, granted, working>> /\ gone \in SUBSET LockName
  BY DEF ExpireLeases
<1> HIDE DEF gone
<1>3. Leases!Lapse
  BY <1>1, <1>2, Zenon DEF Leases!Lapse
<1>4. QED
  BY <1>3, Zenon DEF Leases!Next

\* Every step of a job is one of the lock service, or changes nothing there.
LEMMA JobsUseLeases == JobsInv /\ [JobsNext]_jobVars => [Leases!Next]_(Leases!vars)
<1> SUFFICES ASSUME JobsInv, [JobsNext]_jobVars
             PROVE  Leases!Next \/ UNCHANGED Leases!vars
  OBVIOUS
<1>1. ASSUME NEW a \in Actor, StartJob(a) \/ JobStep(a) \/ CrashJob(a) \/ WorkerTimeout(a)
      PROVE  Leases!Next \/ UNCHANGED Leases!vars
  <2>1. CASE TakeLock(a)
    BY <2>1, TakingGrants
  <2>2. CASE LetGo(a)
    BY <2>2, LettingGoGivesBack
  <2>3. CASE \/ StartJob(a) \/ RefuseLock(a) \/ FinishStage(a) \/ FindLot(a)
             \/ LookAtLocks(a) \/ SpawnWorkers(a) \/ JoinWorkers(a)
    <3>1. UNCHANGED <<owner, live, granted, working>>
      BY <2>3 DEF StartJob, RefuseLock, FinishStage, FindLot, LookAtLocks, SpawnWorkers,
                  JoinWorkers, jobLocks
    <3>2. QED
      BY <3>1 DEF Leases!vars
  <2>4. CASE CrashJob(a) \/ WorkerTimeout(a)
    BY <2>4, DyingAbandons DEF CrashJob, WorkerTimeout
  <2>5. QED
    BY <1>1, <2>1, <2>2, <2>3, <2>4 DEF JobStep
<1>2. ASSUME NEW s \in Scope, ExpireLeases(s)
      PROVE  Leases!Next
  BY <1>2, ExpiringLapses
<1>3. CASE UNCHANGED jobVars
  BY <1>3 DEF jobVars, jobLocks, Leases!vars
<1>4. QED
  BY <1>1, <1>2, <1>3 DEF JobsNext

\* The jobs ask nothing of the lock table but what it promises (db-lock.ts:130-190):
\* whatever they take, release, leave behind when they die or run into, one lock
\* table that serves them all could have answered so.  LeaseProofs shows the same
\* specification from below, for the statements of withAppLocks.
THEOREM JobsUseTheService == JobsSpec => Leases!Spec
<1>1. JobsInit => Leases!Init
  BY DEF JobsInit
<1>2. JobsInv /\ [JobsNext]_jobVars => [Leases!Next]_(Leases!vars)
  BY JobsUseLeases
<1>3. QED
  BY <1>1, <1>2, JobsInvariant, PTL DEF JobsSpec, Leases!Spec
=============================================================================
