------------------------- MODULE PhotoClusterProofs -------------------------
(***************************************************************************)
(* Proofs about PhotoCluster for every finite set of shards and every set  *)
(* of clusters, with and without crashes of the parents.                   *)
(***************************************************************************)
EXTENDS PhotoCluster, FiniteSetTheorems, TLAPS

\* What the summary of a cluster's rows counts is at most its shards.
LEMMA SummarisedType ==
  ASSUME NEW p \in Cluster
  PROVE  Summarised(p) \in Summary
<1> DEFINE With(S) == {w \in Shard : photoRow[<<p, w>>] \in S}
<1>1. ASSUME NEW S
      PROVE  Cardinality(With(S)) \in 0..Cardinality(Shard)
  <2>1. IsFiniteSet(Shard) /\ With(S) \subseteq Shard
    BY ClusterAssumption
  <2>2. IsFiniteSet(With(S)) /\ Cardinality(With(S)) <= Cardinality(Shard)
    BY <2>1, FS_Subset
  <2>3. Cardinality(With(S)) \in Nat /\ Cardinality(Shard) \in Nat
    BY <2>1, <2>2, FS_CardinalityType
  <2>4. QED
    BY <2>2, <2>3
<1>2. /\ Cardinality(With({"running", "success", "failed"})) \in 0..Cardinality(Shard)
      /\ Cardinality(With({"success"})) \in 0..Cardinality(Shard)
      /\ Cardinality(With({"failed"})) \in 0..Cardinality(Shard)
  BY <1>1
<1>3. QED
  BY <1>2 DEF Summarised, Summary

\* The empty summary is one.
LEMMA NoWorkersType == NoWorkers \in Summary
<1>1. Cardinality(Shard) \in Nat
  BY ClusterAssumption, FS_CardinalityType
<1>2. QED
  BY <1>1 DEF NoWorkers, Summary

\* An operator that writes a cluster's row writes one of its type.
LEMMA CompleteType ==
  ASSUME TypeOK, NEW p \in Cluster, NEW status \in RowStatus, Complete(p, status)
  PROVE  clusterRow' \in [Cluster -> [status : RowStatus, workers : Summary]]
BY SummarisedType DEF Complete, TypeOK

\* The types hold before any cluster.
LEMMA TypeInit == Init => TypeOK
BY NoWorkersType DEF Init, TypeOK, Alive, Exited, RowStatus

\* Every step of a parent or a worker keeps the types.
LEMMA TypeStep == TypeOK /\ [Next]_vars => TypeOK'
<1> SUFFICES ASSUME TypeOK, [Next]_vars PROVE TypeOK'
  OBVIOUS
<1> USE DEF TypeOK
<1>1. CASE UNCHANGED vars
  BY <1>1 DEF vars
<1>2. ASSUME NEW p \in Cluster, Start(p) PROVE TypeOK'
  <2>1. clusterRow' \in [Cluster -> [status : RowStatus, workers : Summary]]
    BY <1>2, NoWorkersType DEF Start, RowStatus
  <2>2. photoRow' \in [Worker -> RowStatus] /\ child' \in [Worker -> Alive \cup Exited]
    BY <1>2 DEF Start, RowStatus, Exited
  <2>3. QED
    BY <1>2, <2>1, <2>2 DEF Start, Goto
<1>3. ASSUME NEW p \in Cluster,
             PrepareFails(p) \/ Report(p) \/ ExpireGate(p) \/ CompleteFails(p) \/ Crash(p)
      PROVE  TypeOK'
  BY <1>3 DEF PrepareFails, Report, ExpireGate, CompleteFails, Crash, Leave, Goto
<1>4. ASSUME NEW p \in Cluster, Spawn(p) PROVE TypeOK'
  <2>1. clusterRow' \in [Cluster -> [status : RowStatus, workers : Summary]]
    BY <1>4, CompleteType DEF Spawn, RowStatus
  <2>2. child' \in [Worker -> Alive \cup Exited]
    BY <1>4 DEF Spawn, Alive
  <2>3. QED
    BY <1>4, <2>1, <2>2 DEF Spawn, Goto
<1>5. ASSUME NEW p \in Cluster, AllExited(p) PROVE TypeOK'
  BY <1>5 DEF AllExited, Goto
<1>6. ASSUME NEW p \in Cluster, CompleteRun(p) PROVE TypeOK'
  <2>1. clusterRow' \in [Cluster -> [status : RowStatus, workers : Summary]]
    BY <1>6, CompleteType DEF CompleteRun, RowStatus
  <2>2. QED
    BY <1>6, <2>1 DEF CompleteRun, Goto
<1>7. ASSUME NEW p \in Cluster, RecordFailure(p) PROVE TypeOK'
  <2>1. clusterRow' \in [Cluster -> [status : RowStatus, workers : Summary]]
    BY <1>7, CompleteType DEF RecordFailure, RowStatus
  <2>2. QED
    BY <1>7, <2>1 DEF RecordFailure, Leave, Goto
<1>8. ASSUME NEW x \in Worker, TryLock(x) PROVE TypeOK'
  <2>1. x[1] \in Cluster /\ x[2] \in Shard
    BY DEF Worker
  <2>2. QED
    BY <1>8, <2>1 DEF TryLock, Alive, Exited, RowStatus
<1>9. ASSUME NEW x \in Worker, Finish(x) PROVE TypeOK'
  <2>1. x[2] \in Shard
    BY DEF Worker
  <2>2. QED
    BY <1>9, <2>1 DEF Finish, Exited, RowStatus
<1>10. ASSUME NEW x \in Worker, Die(x) \/ SpawnError(x) \/ Timeout(x) \/ Killed(x)
       PROVE  TypeOK'
  <2>1. x[1] \in Cluster
    BY DEF Worker
  <2>2. child' \in [Worker -> Alive \cup Exited]
    BY <1>10 DEF Die, SpawnError, Timeout, Killed, Alive, Exited
  <2>3. QED
    BY <1>10, <2>1, <2>2 DEF Die, SpawnError, Timeout, Killed, RejectAll
<1>11. ASSUME NEW w \in Shard, ExpireGuard(w) PROVE TypeOK'
  BY <1>11 DEF ExpireGuard
<1>12. CASE PruneStart \/ PruneEnd
  BY <1>12 DEF PruneStart, PruneEnd
<1>13. QED
  BY <1>1, <1>2, <1>3, <1>4, <1>5, <1>6, <1>7, <1>8, <1>9, <1>10, <1>11, <1>12
  DEF Next, ParentStep

\* The variables of PhotoCluster have their types in every reachable state:
\* no summary counts more workers than there are.
THEOREM TypeCorrect == Spec => []TypeOK
BY TypeInit, TypeStep, PTL DEF Spec

-----------------------------------------------------------------------------
(* Exclusion. *)

\* A worker that works has the lock of its shard.
GuardInv == \A x \in Worker : child[x] = "working" => guard[x[2]] = x[1]

\* A worker at work keeps the lock of its shard.
LEMMA GuardStep == TypeOK /\ GuardInv /\ [Next]_vars => GuardInv'
<1> SUFFICES ASSUME TypeOK, GuardInv, [Next]_vars,
                    NEW y \in Worker, child'[y] = "working"
             PROVE  guard'[y[2]] = y[1]
  BY DEF GuardInv
<1> USE DEF TypeOK, GuardInv
<1>0. y[1] \in Cluster /\ y[2] \in Shard /\ y = <<y[1], y[2]>>
  BY DEF Worker
<1>1. CASE UNCHANGED vars
  BY <1>1 DEF vars
<1>2. ASSUME NEW p \in Cluster, Start(p) \/ Spawn(p) PROVE guard'[y[2]] = y[1]
  BY <1>2 DEF Start, Spawn
<1>3. ASSUME NEW p \in Cluster,
             \/ PrepareFails(p) \/ AllExited(p) \/ CompleteRun(p) \/ Report(p)
             \/ RecordFailure(p) \/ CompleteFails(p) \/ Crash(p) \/ ExpireGate(p)
      PROVE  guard'[y[2]] = y[1]
  BY <1>3 DEF PrepareFails, AllExited, CompleteRun, Report, RecordFailure,
              CompleteFails, Crash, ExpireGate
<1>4. ASSUME NEW x \in Worker, TryLock(x) PROVE guard'[y[2]] = y[1]
  <2>1. x[1] \in Cluster /\ x[2] \in Shard
    BY DEF Worker
  <2>2. CASE y = x
    BY <1>4, <2>1, <2>2 DEF TryLock
  <2>3. CASE y # x
    <3>1. child[y] = "working"
      BY <1>4, <2>3 DEF TryLock
    <3>2. guard[y[2]] = y[1] /\ y[1] # Nobody
      BY <3>1, <1>0, ClusterAssumption
    <3>3. QED
      BY <1>0, <1>4, <2>1, <3>2 DEF TryLock
  <2>4. QED
    BY <2>2, <2>3
<1>5. ASSUME NEW x \in Worker, Finish(x) PROVE guard'[y[2]] = y[1]
  <2>1. x[2] \in Shard /\ x = <<x[1], x[2]>> /\ guard[x[2]] = x[1]
    BY <1>5 DEF Worker, Finish
  <2>2. y # x /\ child[y] = "working"
    BY <1>5 DEF Finish
  <2>3. y[2] # x[2]
    BY <1>0, <2>1, <2>2
  <2>4. QED
    BY <1>0, <1>5, <2>1, <2>2, <2>3 DEF Finish
<1>6. ASSUME NEW x \in Worker, Die(x) \/ SpawnError(x) \/ Timeout(x) \/ Killed(x)
      PROVE  guard'[y[2]] = y[1]
  <2>1. guard' = guard /\ child[y] = "working"
    BY <1>6 DEF Die, SpawnError, Timeout, Killed
  <2>2. QED
    BY <2>1
<1>7. ASSUME NEW w \in Shard, ExpireGuard(w) PROVE guard'[y[2]] = y[1]
  <2>1. child[y] = "working" /\ guard[y[2]] = y[1]
    BY <1>7 DEF ExpireGuard
  <2>2. y[2] # w
    BY <1>0, <1>7, <2>1 DEF ExpireGuard
  <2>3. QED
    BY <1>0, <1>7, <2>1, <2>2 DEF ExpireGuard
<1>8. CASE PruneStart \/ PruneEnd
  BY <1>8 DEF PruneStart, PruneEnd
<1>9. QED
  BY <1>1, <1>2, <1>3, <1>4, <1>5, <1>6, <1>7, <1>8 DEF Next, ParentStep

\* No shard is ever worked on by two clusters, however many of them were given
\* up with their workers running, killed or restarted.
THEOREM ShardExclusiveAlways == Spec => []ShardExclusive
<1>1. Init => GuardInv
  BY DEF Init, GuardInv
<1>2. GuardInv => ShardExclusive
  BY DEF GuardInv, ShardExclusive, Worker
<1>3. QED
  BY <1>1, <1>2, GuardStep, TypeInit, TypeStep, PTL DEF Spec
-----------------------------------------------------------------------------
(* What a success means. *)

\* The outcomes of a worker that a successful cluster may have.
Fine == {"ok", "refused"}

\* The row of a worker agrees with how far its process got.
RowInv == \A x \in Worker :
  /\ child[x] \in {"none", "starting", "refused"} => photoRow[x] = "none"
  /\ child[x] = "ok" => photoRow[x] = "success"

\* The parent knows: before the spawn there is no worker; while it waits none
\* was killed; when it has found no failure every worker came to a good end.
ParentInv == \A p \in Cluster : \A w \in Shard :
  /\ parent[p] = "prepare" => child[<<p, w>>] = "none"
  /\ parent[p] = "waiting" => child[<<p, w>>] \notin {"none", "killed"}
  /\ parent[p] = "success" => child[<<p, w>>] \in Fine

\* A recorded success is over and its workers stay at their good end.
SuccessInv == \A p \in Cluster : clusterRow[p].status = "success" =>
  /\ parent[p] \notin {"prepare", "waiting", "success"}
  /\ clusterRow[p].workers.finished = clusterRow[p].workers.succeeded
  /\ \A w \in Shard : child[<<p, w>>] \in Fine

CompleteInv == RowInv /\ ParentInv /\ SuccessInv

\* The rows of workers keep agreeing with their processes.
LEMMA RowStep == TypeOK /\ CompleteInv /\ [Next]_vars => RowInv'
<1> SUFFICES ASSUME TypeOK, CompleteInv, [Next]_vars, NEW y \in Worker
             PROVE  /\ child'[y] \in {"none", "starting", "refused"} => photoRow'[y] = "none"
                    /\ child'[y] = "ok" => photoRow'[y] = "success"
  BY DEF RowInv
<1> USE DEF TypeOK, RowInv
<1>0. /\ y[1] \in Cluster /\ y[2] \in Shard /\ y = <<y[1], y[2]>>
      /\ child[y] \in {"none", "starting", "refused"} => photoRow[y] = "none"
      /\ child[y] = "ok" => photoRow[y] = "success"
  BY DEF Worker, CompleteInv
<1>1. CASE UNCHANGED vars
  BY <1>0, <1>1 DEF vars
<1>2. ASSUME NEW p \in Cluster, Start(p) PROVE RowInv!(y)'
  BY <1>0, <1>2 DEF Start
<1>3. ASSUME NEW p \in Cluster, Spawn(p) PROVE RowInv!(y)'
  <2>1. y[1] = p => child[y] = "none"
    BY <1>0, <1>3 DEF Spawn, CompleteInv, ParentInv
  <2>2. QED
    BY <1>0, <1>3, <2>1 DEF Spawn
<1>4. ASSUME NEW p \in Cluster,
             \/ PrepareFails(p) \/ AllExited(p) \/ CompleteRun(p) \/ Report(p)
             \/ RecordFailure(p) \/ CompleteFails(p) \/ Crash(p) \/ ExpireGate(p)
      PROVE  RowInv!(y)'
  BY <1>0, <1>4 DEF PrepareFails, AllExited, CompleteRun, Report, RecordFailure,
                    CompleteFails, Crash, ExpireGate
<1>5. ASSUME NEW x \in Worker, TryLock(x) PROVE RowInv!(y)'
  BY <1>0, <1>5 DEF TryLock
<1>6. ASSUME NEW x \in Worker, Finish(x) PROVE RowInv!(y)'
  BY <1>0, <1>6 DEF Finish
<1>7. ASSUME NEW x \in Worker, Die(x) \/ SpawnError(x) \/ Timeout(x) \/ Killed(x)
      PROVE  RowInv!(y)'
  BY <1>0, <1>7 DEF Die, SpawnError, Timeout, Killed
<1>8. CASE (\E w \in Shard : ExpireGuard(w)) \/ PruneStart \/ PruneEnd
  BY <1>0, <1>8 DEF ExpireGuard, PruneStart, PruneEnd
<1>9. QED
  BY <1>1, <1>2, <1>3, <1>4, <1>5, <1>6, <1>7, <1>8 DEF Next, ParentStep

\* The parent's place keeps agreeing with how its workers ended.
LEMMA ParentInvStep == TypeOK /\ CompleteInv /\ [Next]_vars => ParentInv'
<1> SUFFICES ASSUME TypeOK, CompleteInv, [Next]_vars,
                    NEW q \in Cluster, NEW v \in Shard
             PROVE  ParentInv!(q)!(v)'
  BY DEF ParentInv
<1> USE DEF TypeOK, Fine
<1>0. <<q, v>> \in Worker /\ ParentInv!(q)!(v)
  BY DEF Worker, CompleteInv, ParentInv
<1>1. CASE UNCHANGED vars
  BY <1>0, <1>1 DEF vars
<1>2. ASSUME NEW p \in Cluster, Start(p) \/ Spawn(p) PROVE ParentInv!(q)!(v)'
  BY <1>0, <1>2 DEF Start, Spawn, Goto
<1>3. ASSUME NEW p \in Cluster, AllExited(p) PROVE ParentInv!(q)!(v)'
  <2>1. CASE q # p
    BY <1>0, <1>3, <2>1 DEF AllExited, Goto
  <2>2. CASE q = p
    <3>1. child[<<q, v>>] \in Exited \ {"none", "killed"}
      BY <1>0, <1>3, <2>2 DEF AllExited
    <3>2. parent'[q] = "success" => child[<<q, v>>] # "failed"
      BY <1>3, <2>2 DEF AllExited, Goto
    <3>3. QED
      BY <1>3, <2>2, <3>1, <3>2 DEF AllExited, Goto, Exited
  <2>3. QED
    BY <2>1, <2>2
<1>4. ASSUME NEW p \in Cluster,
             \/ PrepareFails(p) \/ CompleteRun(p) \/ Report(p)
             \/ RecordFailure(p) \/ CompleteFails(p) \/ Crash(p) \/ ExpireGate(p)
      PROVE  ParentInv!(q)!(v)'
  BY <1>0, <1>4 DEF PrepareFails, CompleteRun, Report, RecordFailure, CompleteFails,
                    Crash, ExpireGate, Leave, Goto
<1>5. ASSUME NEW x \in Worker, TryLock(x) \/ Finish(x) \/ Die(x) \/ Timeout(x)
      PROVE  ParentInv!(q)!(v)'
  <2>1. parent' = parent /\ child[x] \notin {"none"} \cup Fine
    BY <1>5 DEF TryLock, Finish, Die, Timeout
  <2>2. child' \in [Worker -> Alive \cup Exited]
    BY TypeStep
  <2>3. child'[x] \notin {"none", "killed"}
    BY <1>5 DEF TryLock, Finish, Die, Timeout
  <2>4. \A y \in Worker : y # x => child'[y] = child[y]
    BY <1>5 DEF TryLock, Finish, Die, Timeout
  <2>5. QED
    BY <1>0, <2>1, <2>3, <2>4
<1>6. ASSUME NEW x \in Worker, SpawnError(x) \/ Killed(x)
      PROVE  ParentInv!(q)!(v)'
  <2>1. x[1] \in Cluster /\ child[x] \notin {"none"} \cup Fine
    BY <1>6 DEF SpawnError, Killed, Worker
  <2>2. CASE q = x[1]
    <3>1. parent'[q] # "waiting" /\ (parent'[q] # "failing" => parent'[q] = parent[q])
      BY <1>6, <2>1, <2>2 DEF SpawnError, Killed, RejectAll
    <3>2. <<q, v>> # x => child'[<<q, v>>] = child[<<q, v>>]
      BY <1>0, <1>6 DEF SpawnError, Killed
    <3>3. <<q, v>> = x => parent[q] \notin {"prepare", "success"}
      BY <1>0, <2>1
    <3>4. QED
      BY <1>0, <3>1, <3>2, <3>3
  <2>3. CASE q # x[1]
    BY <1>0, <1>6, <2>1, <2>3 DEF SpawnError, Killed, RejectAll
  <2>4. QED
    BY <2>2, <2>3
<1>7. CASE (\E w \in Shard : ExpireGuard(w)) \/ PruneStart \/ PruneEnd
  BY <1>0, <1>7 DEF ExpireGuard, PruneStart, PruneEnd
<1>8. QED
  BY <1>1, <1>2, <1>3, <1>4, <1>5, <1>6, <1>7 DEF Next, ParentStep

\* Workers at a good end have rows that are successes, and nothing else.
LEMMA FineSummary ==
  ASSUME TypeOK, RowInv, NEW p \in Cluster,
         \A w \in Shard : child[<<p, w>>] \in Fine
  PROVE  Summarised(p).finished = Summarised(p).succeeded
<1> DEFINE With(S) == {w \in Shard : photoRow[<<p, w>>] \in S}
<1>1. \A w \in Shard : photoRow[<<p, w>>] \in {"none", "success"}
  BY DEF RowInv, Fine, Worker
<1>2. With({"running", "success", "failed"}) = With({"success"})
  BY <1>1
<1>3. /\ Summarised(p).finished = Cardinality(With({"running", "success", "failed"}))
      /\ Summarised(p).succeeded = Cardinality(With({"success"}))
  BY DEF Summarised
<1>4. QED
  BY <1>2, <1>3

\* A recorded success stays true of its workers.
LEMMA SuccessStep == TypeOK /\ CompleteInv /\ [Next]_vars => SuccessInv'
<1> SUFFICES ASSUME TypeOK, CompleteInv, [Next]_vars,
                    NEW q \in Cluster, clusterRow'[q].status = "success"
             PROVE  SuccessInv!(q)!2'
  BY DEF SuccessInv
<1> USE DEF TypeOK, Fine
<1>0. /\ \A w \in Shard : <<q, w>> \in Worker
      /\ SuccessInv!(q)
  BY DEF Worker, CompleteInv, SuccessInv
<1>1. CASE UNCHANGED vars
  BY <1>0, <1>1 DEF vars
<1>2. ASSUME NEW p \in Cluster, Start(p) \/ Spawn(p) PROVE SuccessInv!(q)!2'
  BY <1>0, <1>2 DEF Start, Spawn, Complete, Goto
<1>3. ASSUME NEW p \in Cluster, CompleteRun(p) PROVE SuccessInv!(q)!2'
  <2>1. CASE q # p
    BY <1>0, <1>3, <2>1 DEF CompleteRun, Complete, Goto
  <2>2. CASE q = p
    <3>1. parent[p] = "success" /\ clusterRow'[p].workers = Summarised(p)
      BY <1>3, <2>2 DEF CompleteRun, Complete
    <3>2. \A w \in Shard : child[<<p, w>>] \in Fine
      BY <3>1 DEF CompleteInv, ParentInv
    <3>3. Summarised(p).finished = Summarised(p).succeeded
      BY <3>2, FineSummary DEF CompleteInv
    <3>4. QED
      BY <1>3, <2>2, <3>1, <3>2, <3>3 DEF CompleteRun, Goto
  <2>3. QED
    BY <2>1, <2>2
<1>4. ASSUME NEW p \in Cluster, RecordFailure(p) PROVE SuccessInv!(q)!2'
  BY <1>0, <1>4 DEF RecordFailure, Complete, Leave, Goto
<1>5. ASSUME NEW p \in Cluster,
             \/ PrepareFails(p) \/ AllExited(p) \/ Report(p)
             \/ CompleteFails(p) \/ Crash(p) \/ ExpireGate(p)
      PROVE  SuccessInv!(q)!2'
  BY <1>0, <1>5 DEF PrepareFails, AllExited, Report, CompleteFails, Crash, ExpireGate,
                    Leave, Goto
<1>6. ASSUME NEW x \in Worker,
             \/ TryLock(x) \/ Finish(x) \/ Die(x) \/ SpawnError(x) \/ Timeout(x)
             \/ Killed(x)
      PROVE  SuccessInv!(q)!2'
  <2>1. x[1] \in Cluster /\ child[x] \notin Fine /\ clusterRow' = clusterRow
    BY <1>6 DEF Worker, TryLock, Finish, Die, SpawnError, Timeout, Killed
  <2>2. \A w \in Shard : <<q, w>> # x
    BY <1>0, <2>1
  <2>3. \A w \in Shard : child'[<<q, w>>] = child[<<q, w>>]
    BY <1>0, <1>6, <2>2 DEF TryLock, Finish, Die, SpawnError, Timeout, Killed
  <2>4. parent'[q] \in {parent[q], "failing"}
    BY <1>6, <2>1 DEF TryLock, Finish, Die, SpawnError, Timeout, Killed, RejectAll
  <2>5. QED
    BY <1>0, <2>1, <2>3, <2>4
<1>7. CASE (\E w \in Shard : ExpireGuard(w)) \/ PruneStart \/ PruneEnd
  BY <1>0, <1>7 DEF ExpireGuard, PruneStart, PruneEnd
<1>8. QED
  BY <1>1, <1>2, <1>3, <1>4, <1>5, <1>6, <1>7 DEF Next, ParentStep

\* A cluster run recorded as a success is over: every worker of it succeeded or
\* was refused, and its row counts no worker that did not succeed.
THEOREM SuccessIsCompleteAlways == Spec => []SuccessIsComplete
<1>1. Init => CompleteInv
  BY DEF Init, CompleteInv, RowInv, ParentInv, SuccessInv, Worker
<1>2. CompleteInv => SuccessIsComplete
  BY DEF CompleteInv, RowInv, SuccessInv, SuccessIsComplete, Fine, Worker
<1>3. TypeOK /\ CompleteInv /\ [Next]_vars => CompleteInv'
  BY RowStep, ParentInvStep, SuccessStep DEF CompleteInv
<1>4. QED
  BY <1>1, <1>2, <1>3, TypeInit, TypeStep, PTL DEF Spec
=============================================================================
