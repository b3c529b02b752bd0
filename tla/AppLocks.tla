------------------------------ MODULE AppLocks ------------------------------
(***************************************************************************)
(* src/services/locks/db-lock.ts: the leases in the MySQL table app_locks  *)
(* and withAppLocks, which takes a list of them in order, runs a callback  *)
(* under a renewal timer and gives them back.  A session is one invocation *)
(* of withAppLocks.  Every SQL statement is one atomic step, and a process *)
(* may crash, or a statement fail, between any two of them.                *)
(*                                                                         *)
(* Only the database clock matters.  Times are kept relative to it: left   *)
(* is locked_until - CURRENT_TIMESTAMP in ticks, and -1 stands for every   *)
(* negative value, so that the state space is finite with no bound on the  *)
(* clock.                                                                  *)
(***************************************************************************)
EXTENDS Integers, Sequences, FiniteSets

CONSTANTS
  Session,      \* invocations of withAppLocks
  Name,         \* lock names
  Request,      \* [Session -> Seq(Name)], the normalised list each one passes
  NoOwner,      \* owner of a row that was never inserted
  TTL,          \* schedule.runLockTtlSec, in ticks
  RenewEvery,   \* schedule.lockRenewIntervalSec, in ticks
  Delay,        \* longest time a statement is outstanding, when Prompt
  Prompt,       \* whether timers and statements keep to RenewEvery and Delay
  MaxErrors     \* bound: statements that fail in one behaviour

ASSUME NameAssumption == NoOwner \notin Session
ASSUME RequestAssumption ==
  /\ Request \in [Session -> Seq(Name)]
  /\ \A s \in Session : Request[s] # << >>
  /\ \A s \in Session : \A i, j \in 1..Len(Request[s]) :
       Request[s][i] = Request[s][j] => i = j
ASSUME TimeAssumption ==
  /\ TTL \in Nat \ {0} /\ RenewEvery \in Nat \ {0} /\ Delay \in Nat
  /\ Prompt \in BOOLEAN /\ MaxErrors \in Nat

VARIABLES
  row,      \* app_locks: owner_id and time left of each lock_name
  pc,       \* where each session is in withAppLocks
  got,      \* handles.length: how many of its names a session has handles for
  lease,    \* time left of the last lease a session was given, -1 without a
            \* handle: a history variable, no code reads it
  lost,     \* lockLostError # null
  result,   \* how the invocation ended
  timer,    \* time to the next firing of the setInterval timer
  cur,      \* names whose renewal of the current Promise.all is outstanding
  old,      \* the same for a Promise.all that has been rejected already; two
            \* stragglers of the same name are kept as one
  wait,     \* time the outstanding acquire or release statement has left
  rwait,    \* the same for the outstanding renewals
  errors    \* statements that have failed

vars == <<row, pc, got, lease, lost, result, timer, cur, old, wait, rwait, errors>>
timing == <<timer, wait, rwait>>
renewals == <<cur, old, rwait>>

PCs == {"idle", "insert", "update", "rollback", "running", "release", "ended"}
Results == {"none", "done", "lost", "threw", "refused", "dberror", "crashed"}

Ticks(max) == 0..max
Left == -1..TTL
Row == [owner : Session \cup {NoOwner}, left : Left]

TypeOK ==
  /\ row \in [Name -> Row]
  /\ pc \in [Session -> PCs]
  /\ got \in [Session -> Nat]
  /\ \A s \in Session : got[s] <= Len(Request[s])
  /\ lease \in [Session -> [Name -> Left]]
  /\ lost \in [Session -> BOOLEAN]
  /\ result \in [Session -> Results]
  /\ timer \in [Session -> Ticks(RenewEvery)]
  /\ cur \in [Session -> SUBSET Name]
  /\ old \in [Session -> SUBSET Name]
  /\ wait \in [Session -> Ticks(Delay)]
  /\ rwait \in [Session -> Ticks(Delay)]
  /\ errors \in Ticks(MaxErrors)

Init ==
  /\ row = [n \in Name |-> [owner |-> NoOwner, left |-> -1]]
  /\ pc = [s \in Session |-> "idle"]
  /\ got = [s \in Session |-> 0]
  /\ lease = [s \in Session |-> [n \in Name |-> -1]]
  /\ lost = [s \in Session |-> FALSE]
  /\ result = [s \in Session |-> "none"]
  /\ timer = [s \in Session |-> 0]
  /\ cur = [s \in Session |-> {}]
  /\ old = [s \in Session |-> {}]
  /\ wait = [s \in Session |-> 0]
  /\ rwait = [s \in Session |-> 0]
  /\ errors = 0

-----------------------------------------------------------------------------
(* The statements. *)

Names(s) == {Request[s][i] : i \in 1..Len(Request[s])}
Held(s) == {Request[s][i] : i \in 1..got[s]}

Acquiring(s) == pc[s] \in {"insert", "update"}
Releasing(s) == pc[s] \in {"rollback", "release"}

\* The name the outstanding acquire or release statement is about: the next
\* one of the list, or the last one of the handles (releases go in reverse).
Target(s) == IF Acquiring(s) THEN Request[s][got[s] + 1] ELSE Request[s][got[s]]

\* Mutant of Leased: locked_until is a tick beyond the TTL.
LeasedTooLong(s) == [owner |-> s, left |-> TTL + 1]

\* CURRENT_TIMESTAMP + INTERVAL ttl SECOND (db-lock.ts:41, 55, 87).
Leased(s) == [owner |-> s, left |-> TTL]

\* Mutants of Matches: a lease is taken over in its last tick; or in force.
MatchesAtExpiry(s) ==
  \/ pc[s] = "insert" /\ row[Target(s)].owner = NoOwner
  \/ pc[s] = "update" /\ row[Target(s)].left <= 0
  \/ Releasing(s) /\ row[Target(s)].owner = s

MatchesInForce(s) ==
  \/ pc[s] = "insert" /\ row[Target(s)].owner = NoOwner
  \/ pc[s] = "update"
  \/ Releasing(s) /\ row[Target(s)].owner = s

\* Whether the outstanding statement of s finds a row to change: INSERT IGNORE
\* needs no row, the UPDATE of acquireAppLock an expired one, the UPDATE of
\* releaseAppLock a row that s still owns.
Matches(s) ==
  \/ pc[s] = "insert" /\ row[Target(s)].owner = NoOwner
  \/ pc[s] = "update" /\ row[Target(s)].left < 0
  \/ Releasing(s) /\ row[Target(s)].owner = s

\* The table after that statement.
Effect(s) ==
  IF Matches(s)
  THEN [row EXCEPT ![Target(s)] = IF Acquiring(s) THEN Leased(s)
                                  ELSE [owner |-> s, left |-> 0]]
  ELSE row

\* The renewal of n changes only a row that s owns, however long ago the
\* lease expired.
Renewed(s, n) == IF row[n].owner = s THEN [row EXCEPT ![n] = Leased(s)] ELSE row

\* The invocation is over: nothing is held, nothing is outstanding in it.
End(s, r) ==
  /\ pc' = [pc EXCEPT ![s] = "ended"]
  /\ result' = [result EXCEPT ![s] = r]
  /\ got' = [got EXCEPT ![s] = 0]
  /\ lease' = [lease EXCEPT ![s] = [n \in Name |-> -1]]
  /\ timer' = [timer EXCEPT ![s] = 0]
  /\ wait' = [wait EXCEPT ![s] = 0]

-----------------------------------------------------------------------------
(* withAppLocks. *)

Start(s) ==
  /\ pc[s] = "idle"
  /\ pc' = [pc EXCEPT ![s] = "insert"]
  /\ wait' = [wait EXCEPT ![s] = Delay]
  /\ UNCHANGED <<row, got, lease, lost, result, timer, cur, old, rwait, errors>>

\* Mutant of Push: the callback starts under the first handle.
PushStartsEarly(s) ==
  /\ row' = Effect(s)
  /\ got' = [got EXCEPT ![s] = @ + 1]
  /\ lease' = [lease EXCEPT ![s][Target(s)] = TTL]
  /\ pc' = [pc EXCEPT ![s] = "running"]
  /\ timer' = [timer EXCEPT ![s] = RenewEvery]
  /\ wait' = [wait EXCEPT ![s] = 0]
  /\ UNCHANGED <<lost, result, cur, old, rwait, errors>>

\* The handle is pushed; after the last one the timer is set and the callback
\* called, with no statement in between.
Push(s) ==
  LET last == got[s] + 1 = Len(Request[s]) IN
  /\ row' = Effect(s)
  /\ got' = [got EXCEPT ![s] = @ + 1]
  /\ lease' = [lease EXCEPT ![s][Target(s)] = TTL]
  /\ pc' = [pc EXCEPT ![s] = IF last THEN "running" ELSE "insert"]
  /\ timer' = [timer EXCEPT ![s] = IF last THEN RenewEvery ELSE 0]
  /\ wait' = [wait EXCEPT ![s] = IF last THEN 0 ELSE Delay]
  /\ UNCHANGED <<lost, result, cur, old, rwait, errors>>

InsertRow(s) == pc[s] = "insert" /\ Matches(s) /\ Push(s)

RowExists(s) ==
  /\ pc[s] = "insert"
  /\ ~Matches(s)
  /\ pc' = [pc EXCEPT ![s] = "update"]
  /\ wait' = [wait EXCEPT ![s] = Delay]
  /\ UNCHANGED <<row, got, lease, lost, result, timer, cur, old, rwait, errors>>

TakeOver(s) == pc[s] = "update" /\ Matches(s) /\ Push(s)

\* Mutant of Refuse: null is returned without the roll-back.
RefuseKeepsHandles(s) ==
  /\ pc[s] = "update"
  /\ ~Matches(s)
  /\ End(s, "refused")
  /\ UNCHANGED <<row, lost, cur, old, rwait, errors>>

\* Somebody else's lease is in force: give back what was taken, return null.
Refuse(s) ==
  /\ pc[s] = "update"
  /\ ~Matches(s)
  /\ IF got[s] = 0
     THEN End(s, "refused")
     ELSE /\ pc' = [pc EXCEPT ![s] = "rollback"]
          /\ wait' = [wait EXCEPT ![s] = Delay]
          /\ result' = [result EXCEPT ![s] = "refused"]
          /\ UNCHANGED <<got, lease, timer>>
  /\ UNCHANGED <<row, lost, cur, old, rwait, errors>>

\* The callback settles.  clearInterval and the check of lockLostError run
\* before any other step of the process; renewals in flight are not awaited.
FinishCallback(s) ==
  /\ pc[s] = "running"
  /\ pc' = [pc EXCEPT ![s] = "release"]
  /\ \E r \in {"threw", IF lost[s] THEN "lost" ELSE "done"} :
       result' = [result EXCEPT ![s] = r]
  /\ timer' = [timer EXCEPT ![s] = 0]
  /\ wait' = [wait EXCEPT ![s] = Delay]
  /\ UNCHANGED <<row, got, lease, lost, cur, old, rwait, errors>>

\* Mutant of Release: a rolled-back invocation tries again at once.
ReleaseRetries(s) ==
  /\ Releasing(s)
  /\ row' = Effect(s)
  /\ IF got[s] = 1 /\ pc[s] = "release"
     THEN End(s, result[s])
     ELSE /\ got' = [got EXCEPT ![s] = @ - 1]
          /\ lease' = [lease EXCEPT ![s][Target(s)] = -1]
          /\ wait' = [wait EXCEPT ![s] = Delay]
          /\ pc' = [pc EXCEPT ![s] = IF got[s] = 1 THEN "insert" ELSE @]
          /\ UNCHANGED <<result, timer>>
  /\ UNCHANGED <<lost, cur, old, rwait, errors>>

Release(s) ==
  /\ Releasing(s)
  /\ row' = Effect(s)
  /\ IF got[s] = 1
     THEN End(s, result[s])
     ELSE /\ got' = [got EXCEPT ![s] = @ - 1]
          /\ lease' = [lease EXCEPT ![s][Target(s)] = -1]
          /\ wait' = [wait EXCEPT ![s] = Delay]
          /\ UNCHANGED <<pc, result, timer>>
  /\ UNCHANGED <<lost, cur, old, rwait, errors>>

\* An acquire or release statement fails, before or after it took effect: the
\* error leaves withAppLocks and the handles are forgotten with the rows.
StatementFails(s) ==
  /\ Acquiring(s) \/ Releasing(s)
  /\ errors < MaxErrors
  /\ errors' = errors + 1
  /\ row' \in {row, Effect(s)}
  /\ End(s, "dberror")
  /\ UNCHANGED <<lost, cur, old, rwait>>

\* The process dies; renewals already sent may still be executed.
Crash(s) ==
  /\ pc[s] \notin {"idle", "ended"}
  /\ row' \in IF pc[s] = "running" THEN {row} ELSE {row, Effect(s)}
  /\ End(s, "crashed")
  /\ cur' = [cur EXCEPT ![s] = {}]
  /\ \E sent \in SUBSET (cur[s] \cup old[s]) : old' = [old EXCEPT ![s] = sent]
  /\ UNCHANGED <<lost, rwait, errors>>

-----------------------------------------------------------------------------
(* The renewal timer. *)

\* Mutants of FireTimer: the interval is the TTL; only the first handle is
\* renewed; the timer outlives the callback.
FireTimerEveryTTL(s) ==
  /\ pc[s] = "running"
  /\ timer[s] = 0
  /\ timer' = [timer EXCEPT ![s] = TTL]
  /\ IF cur[s] = {}
     THEN /\ cur' = [cur EXCEPT ![s] = Names(s)]
          /\ rwait' = [rwait EXCEPT ![s] = Delay]
     ELSE UNCHANGED <<cur, rwait>>
  /\ UNCHANGED <<row, pc, got, lease, lost, result, old, wait, errors>>

FireTimerFirstOnly(s) ==
  /\ pc[s] = "running"
  /\ timer[s] = 0
  /\ timer' = [timer EXCEPT ![s] = RenewEvery]
  /\ IF cur[s] = {}
     THEN /\ cur' = [cur EXCEPT ![s] = {Request[s][1]}]
          /\ rwait' = [rwait EXCEPT ![s] = Delay]
     ELSE UNCHANGED <<cur, rwait>>
  /\ UNCHANGED <<row, pc, got, lease, lost, result, old, wait, errors>>

FireTimerForever(s) ==
  /\ pc[s] \in {"running", "ended"}
  /\ timer[s] = 0
  /\ timer' = [timer EXCEPT ![s] = RenewEvery]
  /\ IF cur[s] = {}
     THEN /\ cur' = [cur EXCEPT ![s] = Names(s)]
          /\ rwait' = [rwait EXCEPT ![s] = Delay]
     ELSE UNCHANGED <<cur, rwait>>
  /\ UNCHANGED <<row, pc, got, lease, lost, result, old, wait, errors>>

\* renewInFlight is cur[s] # {}: the timer does nothing then.
FireTimer(s) ==
  /\ pc[s] = "running"
  /\ timer[s] = 0
  /\ timer' = [timer EXCEPT ![s] = RenewEvery]
  /\ IF cur[s] = {}
     THEN /\ cur' = [cur EXCEPT ![s] = Names(s)]
          /\ rwait' = [rwait EXCEPT ![s] = Delay]
     ELSE UNCHANGED <<cur, rwait>>
  /\ UNCHANGED <<row, pc, got, lease, lost, result, old, wait, errors>>

\* Promise.all rejects at its first rejection: renewInFlight is false again
\* while the batch's other statements are still outstanding.
Reject(s, n) ==
  /\ lost' = [lost EXCEPT ![s] = TRUE]
  /\ IF n \in cur[s]
     THEN /\ cur' = [cur EXCEPT ![s] = {}]
          /\ old' = [old EXCEPT ![s] = (@ \cup cur[s]) \ {n}]
     ELSE /\ old' = [old EXCEPT ![s] = @ \ {n}]
          /\ UNCHANGED cur

Renew(s, n) ==
  /\ n \in cur[s] \cup old[s]
  /\ row' = Renewed(s, n)
  /\ IF row[n].owner = s
     THEN /\ lease' = [lease EXCEPT ![s][n] = IF n \in Held(s) THEN TTL ELSE -1]
          /\ cur' = [cur EXCEPT ![s] = @ \ {n}]
          /\ old' = [old EXCEPT ![s] = @ \ {n}]
          /\ UNCHANGED lost
     ELSE Reject(s, n) /\ UNCHANGED lease
  /\ UNCHANGED <<pc, got, result, timer, wait, rwait, errors>>

\* A renewal fails, before or after it took effect.
RenewFails(s, n) ==
  /\ n \in cur[s] \cup old[s]
  /\ errors < MaxErrors
  /\ errors' = errors + 1
  /\ \/ UNCHANGED <<row, lease>>
     \/ /\ row[n].owner = s
        /\ row' = Renewed(s, n)
        /\ lease' = [lease EXCEPT ![s][n] = IF n \in Held(s) THEN TTL ELSE -1]
  /\ Reject(s, n)
  /\ UNCHANGED <<pc, got, result, timer, wait, rwait>>

-----------------------------------------------------------------------------
(* Time. *)

Less(t) == IF t > 0 THEN t - 1 ELSE t
LeaseLess(t) == IF t >= 0 THEN t - 1 ELSE t

\* A prompt system lets no timer or statement of a live session fall behind.
OnTime(s) ==
  /\ Acquiring(s) \/ Releasing(s) => wait[s] > 0
  /\ pc[s] = "running" => timer[s] > 0
  /\ cur[s] \cup old[s] # {} => rwait[s] > 0

Tick ==
  /\ Prompt => \A s \in Session : OnTime(s)
  /\ row' = [n \in Name |-> [owner |-> row[n].owner, left |-> LeaseLess(row[n].left)]]
  /\ lease' = [s \in Session |-> [n \in Name |-> LeaseLess(lease[s][n])]]
  /\ timer' = [s \in Session |-> Less(timer[s])]
  /\ wait' = [s \in Session |-> Less(wait[s])]
  /\ rwait' = [s \in Session |-> Less(rwait[s])]
  /\ UNCHANGED <<pc, got, lost, result, cur, old, errors>>

Foreground(s) ==
  \/ InsertRow(s) \/ RowExists(s) \/ TakeOver(s) \/ Refuse(s)
  \/ FinishCallback(s) \/ Release(s)

Next ==
  \/ \E s \in Session :
       \/ Start(s) \/ Foreground(s)
       \/ StatementFails(s) \/ Crash(s) \/ FireTimer(s)
       \/ \E n \in Name : Renew(s, n) \/ RenewFails(s, n)
  \/ Tick

Spec == Init /\ [][Next]_vars

\* MySQL answers every statement, callbacks settle (the HTTP and worker
\* timeouts of the jobs see to that), timers fire and time passes.  Nothing
\* makes a job start, fail or crash.
Fairness ==
  /\ \A s \in Session :
       /\ WF_vars(Foreground(s))
       /\ WF_vars(FireTimer(s))
       /\ WF_vars(\E n \in Name : Renew(s, n))
  /\ WF_vars(Tick)

FairSpec == Spec /\ Fairness

-----------------------------------------------------------------------------
(* Properties. *)

\* The lease a session believes in is the row of the table: as long as it has
\* not run out, the row is the session's and ends when the session thinks.
LeaseIsRow ==
  \A s \in Session : \A n \in Name :
    lease[s][n] >= 0 => row[n] = [owner |-> s, left |-> lease[s][n]]

\* Two callbacks run under the same lock name only after the lease of one of
\* them has run out (db-lock.ts:50-65 never takes over a lease in force).
LeaseMutex ==
  \A s, t \in Session : \A n \in Names(s) \cap Names(t) :
    s # t /\ pc[s] = "running" /\ pc[t] = "running" =>
      lease[s][n] < 0 \/ lease[t][n] < 0

\* A refused invocation leaves nothing behind: every name it had taken on the
\* way is released, so the refusal costs nobody a TTL (db-lock.ts:145-148).
RefusedHoldsNothing ==
  \A s \in Session : pc[s] = "ended" /\ result[s] = "refused" =>
    \A n \in Name : row[n].owner = s => row[n].left <= 0

\* When timers and statements keep to their times, no two callbacks run under
\* the same name: the purpose of the locks (README.md:310).
Mutex ==
  \A s, t \in Session :
    s # t /\ pc[s] = "running" /\ pc[t] = "running" => Names(s) \cap Names(t) = {}

\* "Renewal keeps long-running jobs alive indefinitely" (db-lock.ts:154): a
\* callback of a prompt system holds every one of its names all the time,
\* renewals that fail included.
RunningHoldsLeases ==
  \A s \in Session : pc[s] = "running" =>
    \A n \in Names(s) : row[n].owner = s /\ row[n].left >= 0

\* A session that returned, with or without an error, no longer holds a lease
\* in force ("run lock у БД відпускається", docs/README.md:110).
ReleasedOnReturn ==
  \A s \in Session : pc[s] = "ended" /\ result[s] \in {"done", "threw", "lost"} =>
    \A n \in Name : row[n].owner = s => row[n].left <= 0

\* Sessions never wait for each other: every invocation comes to its end.
Terminates == \A s \in Session : pc[s] # "idle" ~> pc[s] = "ended"

\* Whatever became of a session (crash and late renewals included), every
\* lease of it runs out ("dead locks auto-expire", db-lock.ts:153).
DeadLeasesExpire ==
  \A s \in Session : \A n \in Name :
    pc[s] = "ended" ~> ~(row[n].owner = s /\ row[n].left >= 0)

\* The leases of the table and the callbacks under them are a lease service.
\* A session may end without the others of its process (a statement fails).
Service == INSTANCE LeaseService WITH
  Process <- Session,
  ProcessOf <- [s \in Session |-> s],
  Needs   <- [s \in Session |-> Names(s)],
  owner   <- [n \in Name |-> row[n].owner],
  live    <- [n \in Name |-> row[n].left > 0],
  granted <- [s \in Session |-> Held(s)],
  working <- {s \in Session : pc[s] = "running"}

ImplementsLeaseService == Service!Spec
=============================================================================
