----------------------------- MODULE Migrations -----------------------------
(***************************************************************************)
(* src/db/migrate.ts with the files of sql/migrations: db:migrate reads    *)
(* what is recorded once, runs the other files in order, each as one query *)
(* of several statements, and records a file after its last statement.  No *)
(* lock keeps two processes apart (two deploys, a retry of a slow one),    *)
(* DDL is not transactional, and a process may die between two statements. *)
(*                                                                         *)
(* A statement is "plain" (ALTER TABLE ADD or DROP, as in 004, 005, 008:   *)
(* it fails when its change is there), "ifnot" (CREATE TABLE IF NOT        *)
(* EXISTS) or "checked" (a count in information_schema, then a prepared    *)
(* ALTER, as in 003, 010, 011: it fails when another process came between).*)
(***************************************************************************)
EXTENDS Integers, Sequences, FiniteSets

CONSTANTS
  Migrator,    \* processes that run db:migrate
  File,        \* the files in their order: sequences of statement kinds
  MaxRuns      \* bound: times each process runs

ASSUME MigrationsAssumption ==
  /\ MaxRuns \in Nat
  /\ File \in Seq(Seq({"plain", "ifnot", "checked"})) /\ File # << >>
  /\ \A f \in 1..Len(File) : File[f] # << >>

VARIABLES
  done,       \* the changes made: pairs of a file and a statement
  recorded,   \* schema_migrations
  state,      \* where each process is
  applied,    \* the set it has read from schema_migrations
  pos,        \* the file and statement it is at
  tries,      \* how often it was started
  alone       \* history: no other process was active during its run

migrateVars == <<done, recorded, state, applied, pos, tries, alone>>

Files == 1..Len(File)
Statement == UNION {{<<f, i>> : i \in 1..Len(File[f])} : f \in Files}
Active == {p \in Migrator : state[p] \in {"read", "run", "act", "record"}}
KindOf(p) == File[pos[p][1]][pos[p][2]]

MigrateInit ==
  /\ done = {} /\ recorded = {}
  /\ state = [p \in Migrator |-> "off"]
  /\ applied = [p \in Migrator |-> {}]
  /\ pos = [p \in Migrator |-> <<1, 1>>]
  /\ tries = [p \in Migrator |-> 0]
  /\ alone = [p \in Migrator |-> TRUE]

\* db:migrate starts; the CREATE ... IF NOT EXISTS before the files and the
\* reading of the directory change nothing that is modelled.
StartMigrate(p) ==
  /\ state[p] \in {"off", "ok", "failed", "dead"}
  /\ tries[p] < MaxRuns
  /\ tries' = [tries EXCEPT ![p] = @ + 1]
  /\ state' = [state EXCEPT ![p] = "read"]
  /\ alone' = [q \in Migrator |-> IF q = p THEN Active = {}
                                  ELSE alone[q] /\ q \notin Active]
  /\ UNCHANGED <<done, recorded, applied, pos>>

\* Mutant of ReadRecorded: the recorded files are not looked up.
ReadNothing(p) ==
  /\ state[p] = "read"
  /\ applied' = [applied EXCEPT ![p] = {}]
  /\ pos' = [pos EXCEPT ![p] = <<1, 1>>]
  /\ state' = [state EXCEPT ![p] = "run"]
  /\ UNCHANGED <<done, recorded, tries, alone>>

\* On to the first statement of the next file that was not recorded when the
\* process read the table.
GoTo(p, f, seen) ==
  LET rest == {g \in f..Len(File) : g \notin seen} IN
  IF rest = {}
  THEN state' = [state EXCEPT ![p] = "ok"] /\ UNCHANGED pos
  ELSE /\ state' = [state EXCEPT ![p] = "run"]
       /\ \E g \in rest :
            /\ \A h \in rest : g <= h
            /\ pos' = [pos EXCEPT ![p] = <<g, 1>>]

ReadRecorded(p) ==
  /\ state[p] = "read"
  /\ applied' = [applied EXCEPT ![p] = recorded]
  /\ GoTo(p, 1, recorded)
  /\ UNCHANGED <<done, recorded, tries, alone>>

\* The query stops, the error ends the process.
Throw(p) ==
  /\ state' = [state EXCEPT ![p] = "failed"]
  /\ UNCHANGED <<done, recorded, applied, pos, tries, alone>>

Advance(p) ==
  IF pos[p][2] = Len(File[pos[p][1]])
  THEN state' = [state EXCEPT ![p] = "record"] /\ UNCHANGED pos
  ELSE /\ state' = [state EXCEPT ![p] = "run"]
       /\ pos' = [pos EXCEPT ![p] = <<@[1], @[2] + 1>>]

\* Mutant of RunStatement: the file is recorded before its statements run.
RunRecordsFirst(p) ==
  /\ state[p] = "run"
  /\ recorded' = recorded \cup {pos[p][1]}
  /\ IF KindOf(p) = "plain" /\ pos[p] \in done
     THEN state' = [state EXCEPT ![p] = "failed"] /\ UNCHANGED <<done, pos>>
     ELSE done' = done \cup {pos[p]} /\ Advance(p)
  /\ UNCHANGED <<applied, tries, alone>>

\* A statement is executed; of a checked one, the check.
RunStatement(p) ==
  /\ state[p] = "run"
  /\ IF KindOf(p) = "plain" /\ pos[p] \in done
     THEN Throw(p)
     ELSE /\ IF KindOf(p) = "checked" /\ pos[p] \notin done
             THEN state' = [state EXCEPT ![p] = "act"] /\ UNCHANGED <<done, pos>>
             ELSE done' = done \cup {pos[p]} /\ Advance(p)
          /\ UNCHANGED <<recorded, applied, tries, alone>>

\* The prepared ALTER of a checked statement.
ActOnCheck(p) ==
  /\ state[p] = "act"
  /\ IF pos[p] \in done
     THEN Throw(p)
     ELSE /\ done' = done \cup {pos[p]}
          /\ Advance(p)
          /\ UNCHANGED <<recorded, applied, tries, alone>>

\* INSERT INTO schema_migrations; uq_file_name refuses a second one.
RecordFile(p) ==
  /\ state[p] = "record"
  /\ IF pos[p][1] \in recorded
     THEN Throw(p)
     ELSE /\ recorded' = recorded \cup {pos[p][1]}
          /\ GoTo(p, pos[p][1] + 1, applied[p])
          /\ UNCHANGED <<done, applied, tries, alone>>

\* The process dies or loses the database; what was executed stays.
KillMigrate(p) ==
  /\ p \in Active
  /\ state' = [state EXCEPT ![p] = "dead"]
  /\ UNCHANGED <<done, recorded, applied, pos, tries, alone>>

MigrateStep(p) == ReadRecorded(p) \/ RunStatement(p) \/ ActOnCheck(p) \/ RecordFile(p)

MigrateNext == \E p \in Migrator : StartMigrate(p) \/ MigrateStep(p) \/ KillMigrate(p)

MigrateSpec == MigrateInit /\ [][MigrateNext]_migrateVars

-----------------------------------------------------------------------------
(* Properties. *)

MigrateTypeOK ==
  /\ done \subseteq Statement /\ recorded \subseteq Files
  /\ state \in [Migrator -> {"off", "read", "run", "act", "record", "ok", "failed", "dead"}]
  /\ applied \in [Migrator -> SUBSET Files]
  /\ pos \in [Migrator -> Statement]
  /\ tries \in [Migrator -> 0..MaxRuns]
  /\ alone \in [Migrator -> BOOLEAN]

\* However many processes run, fail and die: a recorded file has been executed
\* to its last statement, and so have the files before it; so skipping what is
\* recorded (migrate.ts:64-68) never leaves a change out.
RecordedIsComplete ==
  \A f \in recorded : \A g \in 1..f :
    g \in recorded /\ \A i \in 1..Len(File[g]) : <<g, i>> \in done

\* A file cut in two: it is not recorded, but an ALTER of it that cannot be
\* repeated has been made.
Torn ==
  \E s \in done : File[s[1]][s[2]] = "plain" /\ s[1] \notin recorded

\* A second run puts right what the first left: without another process in its
\* way db:migrate fails only on a file that was cut in two, and a run that ends
\* well, in whatever company, leaves everything recorded.
RerunHeals ==
  \A p \in Migrator :
    /\ state[p] = "failed" /\ alone[p] => Torn
    /\ state[p] = "ok" => recorded = Files
=============================================================================
