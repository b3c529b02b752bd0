---------------------------- MODULE PhotoCluster ----------------------------
(***************************************************************************)
(* services/photo/photo-cluster.ts: a cluster run takes the gate lock,     *)
(* spawns one photo:sync process per shard and waits for all of them with  *)
(* Promise.all.  A worker does not take the gate (its parent has it), only *)
(* the lock of its own shard.  The parent kills a worker that runs for too *)
(* long, and either process may die.                                       *)
(*                                                                         *)
(* A try for a lock and its release are one step each here; AppLocks has   *)
(* their statements.  The prune of an ingest is the other user of the gate.*)
(* What a worker does with its lots is in PhotoSync.                       *)
(***************************************************************************)
EXTENDS Integers, FiniteSets

CONSTANTS
  Cluster,    \* invocations of runPhotoCluster; one is used again when over
  Shard,      \* worker indexes, 0..workerTotal-1
  MayCrash,   \* whether the parent process may die
  Prune,      \* the owner of the gate when an ingest prunes
  Nobody

ASSUME ClusterAssumption ==
  /\ IsFiniteSet(Shard) /\ MayCrash \in BOOLEAN
  /\ Prune \notin Cluster /\ Nobody \notin Cluster \cup {Prune}

VARIABLES
  gate,    \* owner of LOTS_MEDIA_GATE_LOCK
  guard,   \* owner of photo_sync_worker_<w> of each shard
  parent,  \* where each invocation of runPhotoCluster is
  child,   \* the worker processes of each invocation
  photoRow,    \* status of the photo_runs row of each worker
  clusterRow   \* the photo_cluster_runs row of each invocation

vars == <<gate, guard, parent, child, photoRow, clusterRow>>

Worker == Cluster \X Shard
Alive == {"starting", "working", "term"}
Exited == {"none", "ok", "refused", "failed", "killed"}
RowStatus == {"none", "running", "success", "failed"}
Summary == [finished : 0..Cardinality(Shard), succeeded : 0..Cardinality(Shard),
            failed : 0..Cardinality(Shard)]

TypeOK ==
  /\ gate \in Cluster \cup {Prune, Nobody}
  /\ guard \in [Shard -> Cluster \cup {Nobody}]
  /\ parent \in [Cluster -> {"idle", "prepare", "waiting", "success", "failure",
                             "report", "failing", "crashed"}]
  /\ child \in [Worker -> Alive \cup Exited]
  /\ photoRow \in [Worker -> RowStatus]
  /\ clusterRow \in [Cluster -> [status : RowStatus, workers : Summary]]

NoWorkers == [finished |-> 0, succeeded |-> 0, failed |-> 0]

Init ==
  /\ gate = Nobody
  /\ guard = [w \in Shard |-> Nobody]
  /\ parent = [p \in Cluster |-> "idle"]
  /\ child = [x \in Worker |-> "none"]
  /\ photoRow = [x \in Worker |-> "none"]
  /\ clusterRow = [p \in Cluster |-> [status |-> "none", workers |-> NoWorkers]]

-----------------------------------------------------------------------------
\* Mutant of Summarised: a killed worker is counted besides its row.
SummarisedTwice(p) ==
  LET With(S) == Cardinality({w \in Shard : photoRow[<<p, w>>] \in S})
      killed == Cardinality({w \in Shard : child[<<p, w>>] = "killed"}) IN
  [finished  |-> With({"running", "success", "failed"}) + killed,
   succeeded |-> With({"success"}),
   failed    |-> With({"failed"}) + killed]

\* fetchPhotoClusterRunSummary: workers_finished is COUNT(*), of all the rows.
Summarised(p) ==
  LET With(S) == Cardinality({w \in Shard : photoRow[<<p, w>>] \in S}) IN
  [finished  |-> With({"running", "success", "failed"}),
   succeeded |-> With({"success"}),
   failed    |-> With({"failed"})]

Complete(p, status) ==
  clusterRow' = [clusterRow EXCEPT ![p] = [status |-> status, workers |-> Summarised(p)]]

Goto(p, phase) == parent' = [parent EXCEPT ![p] = phase]

\* withAppLocks returns or throws: the invocation is over, the gate released.
Leave(p) == Goto(p, "idle") /\ gate' = Nobody

\* One rejected promise rejects Promise.all; the later ones change nothing.
RejectAll(p) == parent' = [parent EXCEPT ![p] = IF @ = "waiting" THEN "failing" ELSE @]

-----------------------------------------------------------------------------
(* The parent: runPhotoCluster. *)

Start(p) ==
  /\ parent[p] = "idle" /\ gate = Nobody
  /\ \A w \in Shard : child[<<p, w>>] \notin Alive
  /\ gate' = p
  /\ Goto(p, "prepare")
  /\ clusterRow' = [clusterRow EXCEPT ![p] = [status |-> "none", workers |-> NoWorkers]]
  /\ photoRow' = [x \in Worker |-> IF x[1] = p THEN "none" ELSE photoRow[x]]
  /\ child' = [x \in Worker |-> IF x[1] = p THEN "none" ELSE child[x]]
  /\ UNCHANGED guard

\* No healthy proxy, or createPhotoClusterRun fails.
PrepareFails(p) ==
  /\ parent[p] = "prepare"
  /\ Leave(p)
  /\ UNCHANGED <<guard, child, photoRow, clusterRow>>

\* The row is created and all workers are spawned in one go.
Spawn(p) ==
  /\ parent[p] = "prepare"
  /\ Complete(p, "running")
  /\ child' = [x \in Worker |-> IF x[1] = p THEN "starting" ELSE child[x]]
  /\ Goto(p, "waiting")
  /\ UNCHANGED <<gate, guard, photoRow>>

\* Mutant of AllExited: Promise.all of workers that resolve when they are up.
SomeExited(p) ==
  /\ parent[p] = "waiting"
  /\ \E w \in Shard : child[<<p, w>>] \in Exited
  /\ Goto(p, IF \E w \in Shard : child[<<p, w>>] = "failed" THEN "failure" ELSE "success")
  /\ UNCHANGED <<gate, guard, child, photoRow, clusterRow>>

\* Promise.all resolves; a worker with a non-zero exit code makes it a failure.
AllExited(p) ==
  /\ parent[p] = "waiting"
  /\ \A w \in Shard : child[<<p, w>>] \in Exited
  /\ Goto(p, IF \E w \in Shard : child[<<p, w>>] = "failed" THEN "failure" ELSE "success")
  /\ UNCHANGED <<gate, guard, child, photoRow, clusterRow>>

CompleteRun(p) ==
  /\ \/ parent[p] = "success" /\ Complete(p, "success")
     \/ parent[p] = "failure" /\ Complete(p, "failed")
  /\ Goto(p, "report")
  /\ UNCHANGED <<gate, guard, child, photoRow>>

\* The summary of the run is read and reported.  If a worker failed the
\* callback throws failureMessage, which the catch block does not record again.
Report(p) ==
  /\ parent[p] = "report"
  /\ Leave(p)
  /\ UNCHANGED <<guard, child, photoRow, clusterRow>>

\* A statement of CompleteRun or Report fails.
CompleteFails(p) ==
  /\ parent[p] \in {"success", "failure", "report"}
  /\ Goto(p, "failing")
  /\ UNCHANGED <<gate, guard, child, photoRow, clusterRow>>

\* The catch block; its own statement may fail too.
RecordFailure(p) ==
  /\ parent[p] = "failing"
  /\ Complete(p, "failed") \/ UNCHANGED clusterRow
  /\ Leave(p)
  /\ UNCHANGED <<guard, child, photoRow>>

Crash(p) ==
  /\ MayCrash
  /\ parent[p] \notin {"idle", "crashed"}
  /\ Goto(p, "crashed")
  /\ UNCHANGED <<gate, guard, child, photoRow, clusterRow>>

\* The lease of a dead parent runs out.
ExpireGate(p) ==
  /\ parent[p] = "crashed" /\ gate = p
  /\ Leave(p)
  /\ UNCHANGED <<guard, child, photoRow, clusterRow>>

-----------------------------------------------------------------------------
(* A worker process, and runWorker in its parent. *)

\* Mutant of TryLock: the lock keeps out workers of the same cluster only.
TryLockOfCluster(x) ==
  /\ child[x] = "starting"
  /\ \/ /\ guard[x[2]] # x[1]
        /\ guard' = [guard EXCEPT ![x[2]] = x[1]]
        /\ child' = [child EXCEPT ![x] = "working"]
        /\ photoRow' = [photoRow EXCEPT ![x] = "running"]
     \/ /\ guard[x[2]] = x[1]
        /\ child' = [child EXCEPT ![x] = "refused"]
        /\ UNCHANGED <<guard, photoRow>>
  /\ UNCHANGED <<gate, parent, clusterRow>>

\* runPhotoSync under the shard's lock; without it the process warns and exits
\* with code 0.
TryLock(x) ==
  /\ child[x] = "starting"
  /\ \/ /\ guard[x[2]] = Nobody
        /\ guard' = [guard EXCEPT ![x[2]] = x[1]]
        /\ child' = [child EXCEPT ![x] = "working"]
        /\ photoRow' = [photoRow EXCEPT ![x] = "running"]
     \/ /\ guard[x[2]] # Nobody
        /\ child' = [child EXCEPT ![x] = "refused"]
        /\ UNCHANGED <<guard, photoRow>>
  /\ UNCHANGED <<gate, parent, clusterRow>>

\* The run succeeds, or fails and exits with code 1; the lock is released.
Finish(x) ==
  /\ child[x] = "working"
  /\ \/ /\ child' = [child EXCEPT ![x] = "ok"]
        /\ photoRow' = [photoRow EXCEPT ![x] = "success"]
     \/ /\ child' = [child EXCEPT ![x] = "failed"]
        /\ photoRow' \in {photoRow, [photoRow EXCEPT ![x] = "failed"]}
  /\ guard' = [guard EXCEPT ![x[2]] = Nobody]
  /\ UNCHANGED <<gate, parent, clusterRow>>

\* The process dies by itself: a non-zero code or a signal, and a lock left.
Die(x) ==
  /\ child[x] \in {"starting", "working"}
  /\ child' = [child EXCEPT ![x] = "failed"]
  /\ UNCHANGED <<gate, guard, parent, photoRow, clusterRow>>

\* spawn emits "error": there is no process.
SpawnError(x) ==
  /\ child[x] = "starting" /\ parent[x[1]] = "waiting"
  /\ child' = [child EXCEPT ![x] = "failed"]
  /\ RejectAll(x[1])
  /\ UNCHANGED <<gate, guard, photoRow, clusterRow>>

\* Mutant of Timeout: the timer is cleared once the worker has its lock.
TimeoutBeforeStart(x) ==
  /\ parent[x[1]] = "waiting" /\ child[x] = "starting"
  /\ child' = [child EXCEPT ![x] = "term"]
  /\ UNCHANGED <<gate, guard, parent, photoRow, clusterRow>>

\* The timer of the worker fires; SIGTERM ends a node process at once.
Timeout(x) ==
  /\ parent[x[1]] # "crashed" /\ child[x] \in {"starting", "working"}
  /\ child' = [child EXCEPT ![x] = "term"]
  /\ UNCHANGED <<gate, guard, parent, photoRow, clusterRow>>

Killed(x) ==
  /\ child[x] = "term"
  /\ child' = [child EXCEPT ![x] = "killed"]
  /\ RejectAll(x[1])
  /\ UNCHANGED <<gate, guard, photoRow, clusterRow>>

\* The lease of a dead worker runs out.
ExpireGuard(w) ==
  /\ guard[w] # Nobody
  /\ child[<<guard[w], w>>] \notin {"working", "term"}
  /\ guard' = [guard EXCEPT ![w] = Nobody]
  /\ UNCHANGED <<gate, parent, child, photoRow, clusterRow>>

-----------------------------------------------------------------------------
PruneStart ==
  /\ gate = Nobody /\ gate' = Prune
  /\ UNCHANGED <<guard, parent, child, photoRow, clusterRow>>

PruneEnd ==
  /\ gate = Prune /\ gate' = Nobody
  /\ UNCHANGED <<guard, parent, child, photoRow, clusterRow>>

ParentStep(p) ==
  \/ Spawn(p) \/ AllExited(p) \/ CompleteRun(p) \/ Report(p) \/ RecordFailure(p)

Next ==
  \/ \E p \in Cluster :
       \/ Start(p) \/ PrepareFails(p) \/ ParentStep(p)
       \/ CompleteFails(p) \/ Crash(p) \/ ExpireGate(p)
  \/ \E x \in Worker :
       TryLock(x) \/ Finish(x) \/ Die(x) \/ SpawnError(x) \/ Timeout(x) \/ Killed(x)
  \/ \E w \in Shard : ExpireGuard(w)
  \/ PruneStart \/ PruneEnd

Spec == Init /\ [][Next]_vars

\* The parent's statements are answered, its timers fire, signals arrive and
\* leases run out.  Nothing is assumed of a worker: it may hang.
Fairness ==
  /\ \A p \in Cluster : WF_vars(ParentStep(p)) /\ WF_vars(ExpireGate(p))
  /\ \A x \in Worker : WF_vars(Timeout(x)) /\ WF_vars(Killed(x))
  /\ \A w \in Shard : WF_vars(ExpireGuard(w))

FairSpec == Spec /\ Fairness

-----------------------------------------------------------------------------
\* One shard is never in the hands of two workers, not even of two clusters
\* one of which was given up with its workers running (README.md:526-530).
ShardExclusive ==
  \A w \in Shard : \A p, q \in Cluster :
    child[<<p, w>>] = "working" /\ child[<<q, w>>] = "working" => p = q

\* A cluster recorded as a success has no worker left and no worker that
\* failed, and its row counts as many finished workers as succeeded ones.
SuccessIsComplete ==
  \A p \in Cluster : clusterRow[p].status = "success" =>
    /\ clusterRow[p].workers.finished = clusterRow[p].workers.succeeded
    /\ \A w \in Shard :
         /\ child[<<p, w>>] \in {"ok", "refused"}
         /\ photoRow[<<p, w>>] \in {"none", "success"}

\* A worker that hangs does not hang its parent, and the gate is given back
\* (docs/README.md:110).
ClusterEnds ==
  \A p \in Cluster : gate = p ~> gate # p

\* Parallel runs are locked out (README.md:310): workers write lots and media
\* only while their own cluster has the gate.
WorkersUnderGate ==
  \A x \in Worker : child[x] = "working" => gate = x[1]
=============================================================================
