-------------------------------- MODULE Jobs --------------------------------
(***************************************************************************)
(* The jobs of the process side by side: the pipeline of the scheduler and *)
(* of pipeline:run-once (src/services/pipeline/run-once.ts), ingest:csv,   *)
(* the photo retry (a cluster, or one sync), photo:sync of one shard,      *)
(* retention:cleanup, and the manual refresh of a lot that the Telegram    *)
(* bot starts (src/services/manual/lot-refresh.ts).  Each is a sequence of *)
(* nested withAppLocks around its stages; the locks are a LeaseService.    *)
(*                                                                         *)
(* Two jobs may be of the same kind.  Leases of live processes do not      *)
(* lapse here (AppLocks shows what that takes); the leases of dead ones    *)
(* stay in force until they expire.                                        *)
(***************************************************************************)
EXTENDS Integers, Sequences, FiniteSets

CONSTANTS
  Job,           \* the jobs that may run
  Kind,          \* [Job -> Kinds], what each one does
  WorkerLocks,   \* photo_sync_worker_0, ...: one name per shard
  MaxStarted,    \* bound: jobs that start
  MaxCrashes     \* bound: processes that die, worker timeouts included

Kinds == {"pipeline", "ingest", "retry", "sync", "retention", "manual"}

ASSUME JobAssumption ==
  Kind \in [Job -> Kinds] /\ MaxStarted \in Nat /\ MaxCrashes \in Nat

PIPELINE == "pipeline_refresh"
CSV == "csv_ingest"
GATE == "lots_media_gate"
OtherLocks == {PIPELINE, CSV, GATE, "retention_cleanup", "lot_manual_refresh", "photo_sync"}

ASSUME WorkerAssumption ==
  /\ WorkerLocks \in Seq(STRING) /\ WorkerLocks # << >>
  /\ \A i, j \in 1..Len(WorkerLocks) : WorkerLocks[i] = WorkerLocks[j] => i = j
  /\ \A i \in 1..Len(WorkerLocks) : WorkerLocks[i] \notin OtherLocks

VARIABLES
  clustered,   \* env.photo.workerTotal > 1
  at,          \* the step of its program each actor is at
  mode,        \* where each actor is in its life
  outcome,     \* how it ended
  crashes,     \* processes that have died
  owner, live, granted, working   \* the lock service

jobLocks == <<owner, live, granted, working>>
jobVars == <<clustered, at, mode, outcome, crashes, jobLocks>>

Shards == 1..Len(WorkerLocks)

\* The process of job j is <<j, 0>>, the worker it spawns for shard i <<j, i>>.
Main == Job \X {0}
Spawning == {j \in Job : Kind[j] \in {"pipeline", "retry"}}
Worker == Spawning \X Shards
Actor == Main \cup Worker

-----------------------------------------------------------------------------
(* The programs, with and without a cluster (c).  A step takes a list of  *)
(* locks for the steps up to its close, does a stage, or talks to the      *)
(* workers.                                                                *)

Take(names) == <<"take", names>>
Work(stage) == <<"work", stage>>
Plain(op) == <<op, op>>
Close == Plain("close")

\* getPhotoSyncLockNames(workerTotal).
PhotoLocks(c) == IF c THEN WorkerLocks ELSE <<"photo_sync">>

\* The prune of the ingest, under the gate (csv-ingest.ts:287).
Ingest == <<Work("ingest"), Take(<<GATE>>), Work("prune"), Close>>

\* Mutant of PhotoNames: the retry does not take pipeline_refresh.
PhotoNamesNoGlobal(c, skipGlobal) ==
  <<GATE>> \o (IF c THEN << >> ELSE PhotoLocks(c))

\* The locks of runPhotoCluster, or of runPhotoSync when there is no cluster.
PhotoNames(c, skipGlobal) ==
  (IF skipGlobal THEN << >> ELSE <<PIPELINE>>) \o <<GATE>>
    \o (IF c THEN << >> ELSE PhotoLocks(c))

Photo(c, skipGlobal) ==
  <<Take(PhotoNames(c, skipGlobal))>>
    \o (IF c THEN <<Plain("spawn"), Plain("join")>> ELSE <<Work("photo")>>)
    \o <<Close>>

\* Mutant of GuardNames: the manual refresh leaves the photo locks out.
GuardNamesNoPhoto(c) == <<"lot_manual_refresh", PIPELINE, CSV, GATE>>

\* getGuardLockNames.
GuardNames(c) == <<"lot_manual_refresh", PIPELINE, CSV, GATE>> \o PhotoLocks(c)

\* Mutant of RetentionNames: the same names, the outermost last.
RetentionNamesReversed == <<GATE, "retention_cleanup", PIPELINE>>

RetentionNames == <<PIPELINE, "retention_cleanup", GATE>>

JobProgram(j, c) ==
  CASE Kind[j] = "pipeline"  -> <<Take(<<PIPELINE>>), Take(<<CSV>>)>> \o Ingest
                                  \o <<Close>> \o Photo(c, TRUE) \o <<Close>>
    [] Kind[j] = "ingest"    -> <<Take(<<PIPELINE, CSV>>)>> \o Ingest \o <<Close>>
    [] Kind[j] = "retry"     -> Photo(c, FALSE)
    [] Kind[j] = "sync"      -> <<Take(<<PIPELINE, GATE, PhotoLocks(c)[1]>>),
                                  Work("photo"), Close>>
    [] Kind[j] = "retention" -> <<Take(RetentionNames), Work("cleanup"), Close>>
    [] Kind[j] = "manual"    -> <<Plain("find"), Plain("look"), Take(GuardNames(c)),
                                  Work("upsert"), Work("photo"), Close>>

WorkerProgram(i) == <<Take(<<WorkerLocks[i]>>), Work("photo"), Close>>

Programs ==
  [c \in BOOLEAN |-> [a \in Actor |->
     IF a[2] = 0 THEN JobProgram(a[1], c) ELSE WorkerProgram(a[2])]]

MaxSteps == 13
Program(a) == Programs[clustered][a]
Step(a) == IF at[a] <= Len(Program(a)) THEN Program(a)[at[a]] ELSE Plain("end")
Does(a, op) == mode[a] = "run" /\ Step(a)[1] = op

-----------------------------------------------------------------------------
(* The lock service: a session is one withAppLocks, that is, an actor at a *)
(* take of its program.                                                    *)

TakeSteps(p) == {i \in 1..Len(p) : p[i][1] = "take"}
Scope ==
  UNION {{<<a[1], a[2], c, i>> : i \in TakeSteps(Programs[c][a])} :
           a \in Actor, c \in BOOLEAN}
ScopeActor(s) == <<s[1], s[2]>>
NobodyScope == <<"nobody", 0, TRUE, 0>>
LockName == OtherLocks \cup {WorkerLocks[i] : i \in Shards}

\* The list a scope asks for.
ScopeNames(s) == Programs[s[3]][ScopeActor(s)][s[4]][2]

NameSet(list) == {list[i] : i \in 1..Len(list)}

ScopeNeeds == [s \in Scope |-> NameSet(ScopeNames(s))]
ScopeProcess == [s \in Scope |-> ScopeActor(s)]

Leases == INSTANCE LeaseService WITH
  Session <- Scope, Name <- LockName, NoOwner <- NobodyScope,
  Needs <- ScopeNeeds, Process <- Actor, ProcessOf <- ScopeProcess

ScopeAt(a, i) == <<a[1], a[2], clustered, i>>
HereScope(a) == ScopeAt(a, at[a])
OpenSteps(a) == {i \in TakeSteps(Program(a)) : granted[ScopeAt(a, i)] # {}}
Innermost(a) == ScopeAt(a, CHOOSE i \in OpenSteps(a) : \A j \in OpenSteps(a) : j <= i)

\* The next name of the list to take.
NextName(s) == ScopeNames(s)[Cardinality(granted[s]) + 1]

\* Mutant of NextToLetGo: the handles are released in the order of the list.
FirstToLetGo(s) ==
  ScopeNames(s)[Len(ScopeNames(s)) + 1 - Cardinality(granted[s])]

\* releaseAppLocks goes through the handles in reverse.
NextToLetGo(s) == ScopeNames(s)[Cardinality(granted[s])]

-----------------------------------------------------------------------------
(* A job.  A step of its program is over when at moves on.                 *)

JobsInit ==
  /\ clustered \in BOOLEAN
  /\ at = [a \in Actor |-> 1]
  /\ mode = [a \in Actor |-> "idle"]
  /\ outcome = [a \in Actor |-> "none"]
  /\ crashes = 0
  /\ Leases!Init

StartJob(a) ==
  /\ a \in Main
  /\ mode[a] = "idle"
  /\ Cardinality({b \in Main : mode[b] # "idle"}) < MaxStarted
  /\ mode' = [mode EXCEPT ![a] = "run"]
  /\ UNCHANGED <<clustered, at, outcome, crashes, jobLocks>>

\* Mutant of Unwind: a job that takes the wrong way out keeps its locks.
UnwindKeepsLocks(a, why) ==
  /\ mode' = [mode EXCEPT ![a] = "over"]
  /\ outcome' = [outcome EXCEPT ![a] = why]

\* A refusal returns, and an error is thrown, through every open withAppLocks.
Unwind(a, why) ==
  /\ mode' = [mode EXCEPT ![a] = IF OpenSteps(a) = {} THEN "over" ELSE "unwind"]
  /\ outcome' = [outcome EXCEPT ![a] = why]

\* On to the next step of the program; the end of it is the end of the job.
Proceed(a) ==
  /\ at' = [at EXCEPT ![a] = @ + 1]
  /\ IF at[a] = Len(Program(a))
     THEN /\ mode' = [mode EXCEPT ![a] = "over"]
          /\ outcome' = [outcome EXCEPT ![a] = "done"]
     ELSE UNCHANGED <<mode, outcome>>

\* acquireAppLock of the next name succeeds; after the last one the callback
\* starts.
TakeLock(a) ==
  /\ Does(a, "take")
  /\ Leases!Grant(HereScope(a), NextName(HereScope(a)))
  /\ at' = [at EXCEPT ![a] = IF HereScope(a) \in working' THEN @ + 1 ELSE @]
  /\ UNCHANGED <<clustered, mode, outcome, crashes>>

\* A name is in force: withAppLocks returns null.  The pipeline aborts, the
\* ingest throws (it may not prune without the gate), the others just return.
RefuseLock(a) ==
  /\ Does(a, "take")
  /\ live[NextName(HereScope(a))]
  /\ Unwind(a, "refused")
  /\ UNCHANGED <<clustered, at, crashes, jobLocks>>

\* The callback of the innermost withAppLocks is over, one way or the other;
\* then its locks are released one by one.
LetGo(a) ==
  /\ Does(a, "close") \/ mode[a] = "unwind"
  /\ LET s == Innermost(a) IN
     IF s \in working
     THEN Leases!Leave(s) /\ UNCHANGED <<at, mode, outcome>>
     ELSE /\ Leases!GiveBack(s, NextToLetGo(s))
          /\ IF Cardinality(granted[s]) > 1
             THEN UNCHANGED <<at, mode, outcome>>
             ELSE IF mode[a] = "run"
             THEN Proceed(a)
             ELSE /\ mode' = [mode EXCEPT ![a] = IF Cardinality(OpenSteps(a)) = 1
                                                 THEN "over" ELSE "unwind"]
                  /\ UNCHANGED <<at, outcome>>
  /\ UNCHANGED <<clustered, crashes>>

\* A stage ends, or throws; the manual refresh may also return early here, for
\* a lot that has gone, which takes the same way out.
FinishStage(a) ==
  /\ Does(a, "work")
  /\ \/ Proceed(a)
     \/ Unwind(a, "failed") /\ UNCHANGED at
  /\ UNCHANGED <<clustered, crashes, jobLocks>>

\* The manual refresh looks the lot up in the database and in the feed.
FindLot(a) ==
  /\ Does(a, "find")
  /\ \/ Proceed(a)
     \/ Unwind(a, "notfound") /\ UNCHANGED at
  /\ UNCHANGED <<clustered, crashes, jobLocks>>

\* fetchActiveAppLocks: any guard lock in force ends it before it takes one.
LookAtLocks(a) ==
  /\ Does(a, "look")
  /\ IF \E n \in NameSet(GuardNames(clustered)) : live[n]
     THEN Unwind(a, "refused") /\ UNCHANGED at
     ELSE Proceed(a)
  /\ UNCHANGED <<clustered, crashes, jobLocks>>

-----------------------------------------------------------------------------
(* The cluster. *)

WorkersOf(a) == {w \in Worker : w[1] = a[1]}

SpawnWorkers(a) ==
  /\ Does(a, "spawn")
  /\ mode' = [b \in Actor |-> IF b \in WorkersOf(a) THEN "run" ELSE mode[b]]
  /\ at' = [at EXCEPT ![a] = @ + 1]
  /\ UNCHANGED <<clustered, outcome, crashes, jobLocks>>

\* Promise.all over the workers: a refused worker exits with 0 as well.
JoinWorkers(a) ==
  /\ Does(a, "join")
  /\ \A w \in WorkersOf(a) : mode[w] \in {"over", "dead"}
  /\ IF \A w \in WorkersOf(a) : outcome[w] \in {"done", "refused"}
     THEN Proceed(a)
     ELSE Unwind(a, "failed") /\ UNCHANGED at
  /\ UNCHANGED <<clustered, crashes, jobLocks>>

\* The statement a process has sent when it dies takes effect or not.
LastStatement(a) ==
  \/ UNCHANGED <<owner, live>>
  \/ /\ Does(a, "take")
     /\ LET n == NextName(HereScope(a)) IN
        /\ ~live[n]
        /\ live' = [live EXCEPT ![n] = TRUE]
        /\ owner' = [owner EXCEPT ![n] = HereScope(a)]
  \/ /\ Does(a, "close") \/ mode[a] = "unwind"
     /\ Innermost(a) \notin working
     /\ live' = [live EXCEPT ![NextToLetGo(Innermost(a))] = FALSE]
     /\ UNCHANGED owner

\* A process dies with every withAppLocks it is in; the leases stay in force.
Dies(a) ==
  /\ mode[a] \in {"run", "unwind"}
  /\ crashes < MaxCrashes
  /\ crashes' = crashes + 1
  /\ LastStatement(a)
  /\ granted' = [s \in Scope |-> IF ScopeActor(s) = a THEN {} ELSE granted[s]]
  /\ working' = {s \in working : ScopeActor(s) # a}

CrashJob(a) ==
  /\ Dies(a)
  /\ mode' = [mode EXCEPT ![a] = "dead"]
  /\ UNCHANGED <<clustered, at, outcome>>

\* A worker over its time is killed and Promise.all rejects: the other workers
\* of the cluster go on without a parent.
WorkerTimeout(w) ==
  /\ w \in Worker
  /\ Dies(w)
  /\ LET a == <<w[1], 0>> IN
     /\ Does(a, "join")
     /\ mode' = [mode EXCEPT ![w] = "dead", ![a] = "unwind"]
     /\ outcome' = [outcome EXCEPT ![a] = "failed"]
  /\ UNCHANGED <<clustered, at>>

\* The leases of a dead process run out, those of one withAppLocks together:
\* they were renewed together.
ExpireLeases(s) ==
  /\ mode[ScopeActor(s)] = "dead"
  /\ \E n \in LockName : live[n] /\ owner[n] = s
  /\ live' = [n \in LockName |-> live[n] /\ owner[n] # s]
  /\ UNCHANGED <<clustered, at, mode, outcome, crashes, owner, granted, working>>

JobStep(a) ==
  \/ TakeLock(a) \/ RefuseLock(a) \/ LetGo(a) \/ FinishStage(a) \/ FindLot(a)
  \/ LookAtLocks(a) \/ SpawnWorkers(a) \/ JoinWorkers(a)

JobsNext ==
  \/ \E a \in Actor : StartJob(a) \/ JobStep(a) \/ CrashJob(a) \/ WorkerTimeout(a)
  \/ \E s \in Scope : ExpireLeases(s)

-----------------------------------------------------------------------------
(* Properties. *)

JobsTypeOK ==
  /\ clustered \in BOOLEAN
  /\ at \in [Actor -> 1..MaxSteps]
  /\ mode \in [Actor -> {"idle", "run", "unwind", "over", "dead"}]
  /\ outcome \in [Actor -> {"none", "done", "refused", "failed", "notfound"}]
  /\ crashes \in 0..MaxCrashes
  /\ owner \in [LockName -> Scope \cup {NobodyScope}]
  /\ live \in [LockName -> BOOLEAN]
  /\ \A s \in Scope : granted[s] \subseteq ScopeNeeds[s]
  /\ working \subseteq Scope

\* The shards whose lots an actor's stage may touch.
ShardsOf(a) ==
  CASE a \in Worker -> {a[2]}
    [] a \in Main /\ Kind[a[1]] = "manual" -> Shards
    [] a \in Main /\ Kind[a[1]] = "sync" -> {1}
    [] OTHER -> {}

\* No two jobs are at a stage at the same time, whatever crashed before
\* (README.md:310), and no lot's photos are processed by two of them: a worker
\* shares its shard with nobody, not even when it has outlived its cluster and
\* the bot refreshes a lot (lot-refresh.ts:62-70).
StagesExclusive ==
  \A a, b \in Actor :
    a # b /\ Does(a, "work") /\ Does(b, "work") =>
      /\ a \in Worker \/ b \in Worker
      /\ ShardsOf(a) \cap ShardsOf(b) = {}

\* pipeline_refresh is the one that decides: a job that holds it is refused a
\* further lock only by what no job holds any more, an orphaned worker or the
\* lease of a dead process; so a running pipeline never loses half its stages
\* to another job (run-once.ts:104-129), which would leave lots without photos.
RefusedUnderPipeline ==
  \A a \in Actor :
    /\ Does(a, "take")
    /\ \E i \in OpenSteps(a) : PIPELINE \in granted[ScopeAt(a, i)]
    /\ live[NextName(HereScope(a))]
    => LET b == ScopeActor(owner[NextName(HereScope(a))]) IN
       b \in Worker \/ mode[b] = "dead"

\* Jobs that start together never all refuse each other: when none has died and
\* everything has settled, one of those that started was not refused.
SomebodyGetsThrough ==
  LET started == {a \in Main : mode[a] # "idle"} IN
  crashes = 0 /\ started # {} /\ (\A a \in Actor : mode[a] \in {"idle", "over"}) =>
    \E a \in started : outcome[a] # "refused"

\* Whatever way out a job takes, with or without an error and from however deep
\* a nest of locks: a process that has ended by itself leaves no lock in force
\* (db-lock.ts:145-148, 188-191), so nothing but a death costs others a TTL.
EndedHoldsNothing ==
  \A n \in LockName : live[n] => mode[ScopeActor(owner[n])] \in {"run", "unwind", "dead"}
=============================================================================
