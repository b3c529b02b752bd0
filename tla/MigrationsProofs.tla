-------------------------- MODULE MigrationsProofs --------------------------
(***************************************************************************)
(* Proofs about Migrations for every list of files, however long, and any  *)
(* number of processes that run, fail and die.                             *)
(***************************************************************************)
EXTENDS Migrations, TLAPS

-----------------------------------------------------------------------------
(* The inductive invariant. *)

\* What a process that is at a file knows: it read the table before, so the
\* table has at least what it read; the files before its own are recorded and
\* the statements before its own have been executed.
Follows(p) ==
  state[p] \in {"run", "act", "record"} =>
    /\ applied[p] \subseteq recorded /\ pos[p][1] \notin applied[p]
    /\ \A g \in Files : g < pos[p][1] => g \in recorded
    /\ \A i \in 1..Len(File[pos[p][1]]) : i < pos[p][2] => <<pos[p][1], i>> \in done
    /\ state[p] = "record" => pos[p][2] = Len(File[pos[p][1]]) /\ pos[p] \in done
    /\ state[p] = "act" => KindOf(p) = "checked"

\* A process without company sees nobody else's work.
Undisturbed(p) ==
  p \in Active /\ alone[p] =>
    /\ \A q \in Active : q = p
    /\ state[p] # "read" => \A g \in recorded : g \in applied[p] \/ g < pos[p][1]
    /\ state[p] = "act" => pos[p] \notin done

\* A statement that no process will ever get past.
Stuck(s) ==
  /\ File[s[1]][s[2]] = "plain" /\ s[1] \notin recorded
  /\ \A q \in Migrator : state[q] \in {"run", "act", "record"} /\ pos[q][1] = s[1] =>
       pos[q][2] <= s[2] /\ state[q] # "record"

Ended(p) ==
  /\ state[p] = "ok" => recorded = Files
  /\ state[p] = "failed" /\ alone[p] => \E s \in done : Stuck(s)

IInv ==
  /\ MigrateTypeOK
  /\ RecordedIsComplete
  /\ \A p \in Migrator : Follows(p) /\ Undisturbed(p) /\ Ended(p)

-----------------------------------------------------------------------------
(* Files and statements. *)

\* There is a file, and no file is empty.
LEMMA FileType ==
  /\ Files = 1..Len(File) /\ Len(File) \in Nat /\ 1 \in Files
  /\ \A f \in Files : Len(File[f]) \in Nat /\ 1 \in 1..Len(File[f])
<1> DEFINE Kinds == {"plain", "ifnot", "checked"}
<1>1. File \in Seq(Seq(Kinds)) /\ File # << >>
  BY MigrationsAssumption
<1>2. \A f \in 1..Len(File) : File[f] \in Seq(Kinds) /\ File[f] # << >>
  BY <1>1, MigrationsAssumption
<1>3. \A q \in Seq(Kinds) : q # << >> => Len(q) \in Nat /\ 1 \in 1..Len(q)
  OBVIOUS
<1>4. Len(File) \in Nat /\ 1 \in 1..Len(File)
  <2> HIDE DEF Kinds
  <2>1. QED
    BY <1>1
<1>5. QED
  BY <1>2, <1>3, <1>4 DEF Files

\* A statement is a pair of a file and a place in it.
LEMMA StatementType ==
  /\ \A f, i : <<f, i>> \in Statement <=> f \in Files /\ i \in 1..Len(File[f])
  /\ \A s \in Statement : s[1] \in Files /\ s[2] \in 1..Len(File[s[1]])
                         /\ s = <<s[1], s[2]>>
BY DEF Statement

\* GoTo ends the run or finds the next file that is not in seen.
LEMMA GoToEffect ==
  ASSUME MigrateTypeOK, NEW p \in Migrator, NEW f \in Nat \ {0}, NEW seen, GoTo(p, f, seen)
  PROVE  \/ /\ state' = [state EXCEPT ![p] = "ok"] /\ pos' = pos
            /\ \A g \in Files : g >= f => g \in seen
         \/ \E g \in Files :
              /\ g \notin seen /\ g >= f
              /\ \A h \in Files : f <= h /\ h < g => h \in seen
              /\ state' = [state EXCEPT ![p] = "run"]
              /\ pos' = [pos EXCEPT ![p] = <<g, 1>>]
              /\ <<g, 1>> \in Statement
<1> DEFINE rest == {g \in f..Len(File) : g \notin seen}
<1>1. CASE rest = {}
  BY SMTT(60), <1>1, FileType DEF GoTo
<1>2. CASE rest # {}
  <2>1. PICK g \in rest : /\ \A h \in rest : g <= h
                          /\ pos' = [pos EXCEPT ![p] = <<g, 1>>]
    BY <1>2 DEF GoTo
  <2>2. state' = [state EXCEPT ![p] = "run"]
    BY <1>2 DEF GoTo
  <2>3. g \in Files /\ g \notin seen /\ g >= f
    BY FileType
  <2>4. \A h \in Files : f <= h /\ h < g => h \in seen
    BY <2>1, <2>3, FileType
  <2>5. <<g, 1>> \in Statement
    BY <2>3, FileType, StatementType
  <2>6. QED
    BY <2>1, <2>2, <2>3, <2>4, <2>5
<1>3. QED
  BY <1>1, <1>2

\* Advance goes to the next statement, or past the last one.
LEMMA AdvanceEffect ==
  ASSUME MigrateTypeOK, NEW p \in Migrator, Advance(p)
  PROVE  \/ /\ pos[p][2] = Len(File[pos[p][1]])
            /\ state' = [state EXCEPT ![p] = "record"] /\ pos' = pos
         \/ /\ state' = [state EXCEPT ![p] = "run"]
            /\ pos' = [pos EXCEPT ![p] = <<pos[p][1], pos[p][2] + 1>>]
            /\ <<pos[p][1], pos[p][2] + 1>> \in Statement
<1>1. pos[p] \in Statement
  BY DEF MigrateTypeOK
<1>2. pos[p][1] \in Files /\ pos[p][2] \in 1..Len(File[pos[p][1]])
  BY <1>1, StatementType
<1>3. Len(File[pos[p][1]]) \in Nat
  BY <1>2, FileType
<1>4. CASE pos[p][2] = Len(File[pos[p][1]])
  BY <1>4 DEF Advance
<1>5. CASE pos[p][2] # Len(File[pos[p][1]])
  <2>1. pos[p][2] + 1 \in 1..Len(File[pos[p][1]])
    BY <1>2, <1>3, <1>5
  <2>2. QED
    BY <1>2, <1>5, <2>1, StatementType DEF Advance
<1>6. QED
  BY <1>4, <1>5

-----------------------------------------------------------------------------
(* Types. *)

\* The types hold at the start.
LEMMA TypeInit == MigrateInit => MigrateTypeOK
<1>1. <<1, 1>> \in Statement
  BY FileType, StatementType
<1>2. QED
  BY <1>1, MigrationsAssumption DEF MigrateInit, MigrateTypeOK

\* Its types, and that it is about one process.
LEMMA GoToType ==
  ASSUME MigrateTypeOK, NEW p \in Migrator, NEW f \in Nat \ {0}, NEW seen, GoTo(p, f, seen)
  PROVE  /\ state' \in [Migrator -> {"off", "read", "run", "act", "record", "ok", "failed", "dead"}]
         /\ pos' \in [Migrator -> Statement]
         /\ \A q \in Migrator : q # p => state'[q] = state[q] /\ pos'[q] = pos[q]
<1>1. CASE state' = [state EXCEPT ![p] = "ok"] /\ pos' = pos
  BY <1>1 DEF MigrateTypeOK
<1>2. CASE \E g \in Files : /\ state' = [state EXCEPT ![p] = "run"]
                           /\ pos' = [pos EXCEPT ![p] = <<g, 1>>]
                           /\ <<g, 1>> \in Statement
  BY <1>2 DEF MigrateTypeOK
<1>3. QED
  BY <1>1, <1>2, GoToEffect

\* Every step keeps the types.
LEMMA TypeStep == MigrateTypeOK /\ [MigrateNext]_migrateVars => MigrateTypeOK'
<1> SUFFICES ASSUME MigrateTypeOK, [MigrateNext]_migrateVars PROVE MigrateTypeOK'
  OBVIOUS
<1> USE DEF MigrateTypeOK
<1>1. CASE UNCHANGED migrateVars
  BY <1>1 DEF migrateVars
<1>2. ASSUME NEW p \in Migrator, StartMigrate(p) PROVE MigrateTypeOK'
  <2>1. alone' \in [Migrator -> BOOLEAN]
    BY <1>2, Zenon DEF StartMigrate
  <2>2. tries' \in [Migrator -> 0..MaxRuns]
    BY <1>2, MigrationsAssumption DEF StartMigrate
  <2>3. QED
    BY <1>2, <2>1, <2>2 DEF StartMigrate
<1>3. ASSUME NEW p \in Migrator, ReadRecorded(p) PROVE MigrateTypeOK'
  <2>1. GoTo(p, 1, recorded) /\ applied' \in [Migrator -> SUBSET Files]
    BY <1>3 DEF ReadRecorded
  <2>2. state' \in [Migrator -> {"off", "read", "run", "act", "record", "ok", "failed", "dead"}]
        /\ pos' \in [Migrator -> Statement]
    <3>1. 1 \in Nat \ {0}
      OBVIOUS
    <3>2. QED
      BY <2>1, <3>1, GoToType
  <2>3. QED
    BY <1>3, <2>1, <2>2 DEF ReadRecorded
<1>4. ASSUME NEW p \in Migrator, RunStatement(p) \/ ActOnCheck(p) PROVE MigrateTypeOK'
  <2>1. pos[p] \in Statement
    OBVIOUS
  <2>2. CASE Throw(p)
    BY <2>2 DEF Throw
  <2>3. CASE Advance(p) /\ done' = done \cup {pos[p]} /\ UNCHANGED <<recorded, applied, tries, alone>>
    <3>1. state' \in [Migrator -> {"off", "read", "run", "act", "record", "ok", "failed", "dead"}]
          /\ pos' \in [Migrator -> Statement]
      BY <2>3, AdvanceEffect
    <3>2. QED
      BY <2>1, <2>3, <3>1
  <2>4. CASE state' = [state EXCEPT ![p] = "act"]
             /\ UNCHANGED <<done, pos, recorded, applied, tries, alone>>
    BY <2>4
  <2>5. QED
    BY <1>4, <2>2, <2>3, <2>4 DEF RunStatement, ActOnCheck
<1>5. ASSUME NEW p \in Migrator, RecordFile(p) PROVE MigrateTypeOK'
  <2>1. pos[p][1] \in Files /\ pos[p][1] + 1 \in Nat \ {0}
    BY StatementType, FileType
  <2>2. CASE Throw(p)
    BY <2>2 DEF Throw
  <2>3. CASE recorded' = recorded \cup {pos[p][1]} /\ GoTo(p, pos[p][1] + 1, applied[p])
             /\ UNCHANGED <<done, applied, tries, alone>>
    <3>1. state' \in [Migrator -> {"off", "read", "run", "act", "record", "ok", "failed", "dead"}]
          /\ pos' \in [Migrator -> Statement]
      BY <2>1, <2>3, GoToType
    <3>2. QED
      BY <2>1, <2>3, <3>1
  <2>4. QED
    BY <1>5, <2>2, <2>3 DEF RecordFile
<1>6. ASSUME NEW p \in Migrator, KillMigrate(p) PROVE MigrateTypeOK'
  BY <1>6 DEF KillMigrate
<1>7. QED
  BY <1>1, <1>2, <1>3, <1>4, <1>5, <1>6 DEF MigrateNext, MigrateStep

-----------------------------------------------------------------------------
(* A stuck statement stays stuck. *)

\* A change that was made and is not recorded stops every later run of its file.
LEMMA StuckStays ==
  ASSUME MigrateTypeOK, \A p \in Migrator : Follows(p), MigrateNext,
         NEW s \in done, Stuck(s)
  PROVE  s \in done' /\ Stuck(s)'
<1> USE DEF MigrateTypeOK
<1>1. s \in Statement /\ s[1] \in Files /\ s[2] \in 1..Len(File[s[1]]) /\ s = <<s[1], s[2]>>
  BY StatementType
<1>2. s[2] \in Nat /\ s[2] >= 1 /\ s[2] <= Len(File[s[1]]) /\ Len(File[s[1]]) \in Nat
  BY <1>1, FileType
<1>3. File[s[1]][s[2]] = "plain" /\ s[1] \notin recorded
  BY DEF Stuck
<1>4. SUFFICES ASSUME NEW p \in Migrator, StartMigrate(p) \/ MigrateStep(p) \/ KillMigrate(p)
               PROVE  s \in done' /\ Stuck(s)'
  BY DEF MigrateNext
<1>5. ASSUME state[p] \in {"run", "act", "record"}, pos[p][1] = s[1]
      PROVE  pos[p][2] <= s[2] /\ state[p] # "record"
  BY <1>5 DEF Stuck
<1>6. pos[p][1] \in Files /\ pos[p][2] \in Nat /\ pos[p] = <<pos[p][1], pos[p][2]>>
  BY StatementType, FileType
\* It is enough to look at the process that moves.
<1>7. ASSUME done \subseteq done', s[1] \notin recorded',
             \A q \in Migrator : q # p => state'[q] = state[q] /\ pos'[q] = pos[q],
             state'[p] \in {"run", "act", "record"} /\ pos'[p][1] = s[1] =>
               pos'[p][2] <= s[2] /\ state'[p] # "record"
      PROVE  s \in done' /\ Stuck(s)'
  BY <1>3, <1>7 DEF Stuck
<1>8. ASSUME NEW f \in Nat \ {0}, NEW seen, GoTo(p, f, seen),
             done' = done, s[1] \notin recorded'
      PROVE  s \in done' /\ Stuck(s)'
  <2>1. CASE state' = [state EXCEPT ![p] = "ok"] /\ pos' = pos
    BY <1>7, <1>8, <2>1
  <2>2. CASE \E g \in Files : /\ state' = [state EXCEPT ![p] = "run"]
                             /\ pos' = [pos EXCEPT ![p] = <<g, 1>>]
    BY <1>2, <1>7, <1>8, <2>2
  <2>3. QED
    BY <1>8, <2>1, <2>2, GoToEffect
<1>9. ASSUME state' = [state EXCEPT ![p] = "failed"] \/ state' = [state EXCEPT ![p] = "dead"]
               \/ state' = [state EXCEPT ![p] = "read"],
             UNCHANGED <<done, recorded, pos>>
      PROVE  s \in done' /\ Stuck(s)'
  BY <1>3, <1>7, <1>9
<1>10. ASSUME Advance(p), state[p] \in {"run", "act"}, pos[p] # s,
              done \subseteq done', recorded' = recorded
       PROVE  s \in done' /\ Stuck(s)'
  <2>1. pos[p][1] = s[1] => pos[p][2] # s[2]
    BY <1>1, <1>6, <1>10, Zenon
  <2>2. pos[p][1] = s[1] => pos[p][2] <= s[2]
    BY <1>5, <1>10
  <2>3. pos[p][1] = s[1] => pos[p][2] < s[2]
    BY <1>2, <1>6, <2>1, <2>2
  <2>4. CASE /\ pos[p][2] = Len(File[pos[p][1]])
             /\ state' = [state EXCEPT ![p] = "record"] /\ pos' = pos
    <3>1. pos[p][1] # s[1]
      BY <1>2, <2>3, <2>4
    <3>2. QED
      BY <1>3, <1>7, <1>10, <2>4, <3>1
  <2>5. CASE /\ state' = [state EXCEPT ![p] = "run"]
             /\ pos' = [pos EXCEPT ![p] = <<pos[p][1], pos[p][2] + 1>>]
    <3>1. pos[p][1] = s[1] => pos[p][2] + 1 <= s[2]
      BY <1>2, <1>6, <2>3
    <3>2. QED
      BY <1>3, <1>7, <1>10, <2>5, <3>1
  <2>6. QED
    BY <1>10, <2>4, <2>5, AdvanceEffect
<1>11. CASE StartMigrate(p) \/ KillMigrate(p)
  BY <1>9, <1>11 DEF StartMigrate, KillMigrate
<1>12. CASE ReadRecorded(p)
  <2>1. 1 \in Nat \ {0}
    OBVIOUS
  <2>2. QED
    BY <1>3, <1>8, <1>12, <2>1 DEF ReadRecorded
<1>13. CASE RunStatement(p)
  <2>1. CASE Throw(p)
    BY <1>9, <2>1 DEF Throw
  <2>2. CASE ~Throw(p)
    <3>1. ~(KindOf(p) = "plain" /\ pos[p] \in done)
      BY <1>13, <2>2 DEF RunStatement
    <3>2. pos[p] # s
      BY <1>3, <3>1 DEF KindOf
    <3>3. CASE state' = [state EXCEPT ![p] = "act"] /\ UNCHANGED <<done, pos, recorded>>
      BY <1>3, <1>5, <1>7, <1>13, <3>3 DEF RunStatement
    <3>4. CASE Advance(p) /\ done' = done \cup {pos[p]} /\ recorded' = recorded
      BY <1>10, <1>13, <3>2, <3>4 DEF RunStatement
    <3>5. QED
      BY <1>13, <3>1, <3>3, <3>4 DEF RunStatement
  <2>3. QED
    BY <2>1, <2>2
<1>14. CASE ActOnCheck(p)
  <2>1. KindOf(p) = "checked"
    BY <1>14 DEF ActOnCheck, Follows
  <2>2. pos[p] # s
    BY <1>3, <2>1 DEF KindOf
  <2>3. CASE Throw(p)
    BY <1>9, <2>3 DEF Throw
  <2>4. CASE Advance(p) /\ done' = done \cup {pos[p]} /\ recorded' = recorded
    BY <1>10, <1>14, <2>2, <2>4 DEF ActOnCheck
  <2>5. QED
    BY <1>14, <2>3, <2>4 DEF ActOnCheck
<1>15. CASE RecordFile(p)
  <2>1. CASE Throw(p)
    BY <1>9, <2>1 DEF Throw
  <2>2. CASE /\ recorded' = recorded \cup {pos[p][1]}
             /\ GoTo(p, pos[p][1] + 1, applied[p])
             /\ UNCHANGED <<done, applied, tries, alone>>
    <3>1. pos[p][1] # s[1]
      BY <1>5, <1>15 DEF RecordFile
    <3>2. pos[p][1] + 1 \in Nat \ {0}
      BY <1>6, FileType
    <3>3. s[1] \notin recorded' /\ done' = done
      BY <1>3, <2>2, <3>1
    <3>4. QED
      BY <1>8, <2>2, <3>2, <3>3
  <2>3. QED
    BY <1>15, <2>1, <2>2 DEF RecordFile
<1>16. QED
  BY <1>4, <1>11, <1>12, <1>13, <1>14, <1>15 DEF MigrateStep

-----------------------------------------------------------------------------
(* What a step of one process leaves the others. *)

\* The tables only grow, and a process that stays undisturbed was so before and
\* is not active now.
LEMMA MigrateFrame ==
  ASSUME MigrateTypeOK, NEW p \in Migrator,
         StartMigrate(p) \/ MigrateStep(p) \/ KillMigrate(p)
  PROVE  /\ done \subseteq done' /\ recorded \subseteq recorded'
         /\ \A q \in Migrator : q # p =>
              /\ state'[q] = state[q] /\ pos'[q] = pos[q] /\ applied'[q] = applied[q]
              /\ alone'[q] => alone[q]
              /\ q \in Active /\ alone'[q] => p \in Active
<1> USE DEF MigrateTypeOK
<1>1. CASE StartMigrate(p)
  <2>1. \A q \in Migrator : q # p => alone'[q] = (alone[q] /\ q \notin Active)
    BY <1>1, Zenon DEF StartMigrate
  <2>2. QED
    BY <1>1, <2>1 DEF StartMigrate
<1>2. CASE ReadRecorded(p)
  <2>1. 1 \in Nat \ {0} /\ GoTo(p, 1, recorded)
    BY <1>2 DEF ReadRecorded
  <2>2. \A q \in Migrator : q # p => state'[q] = state[q] /\ pos'[q] = pos[q]
    BY <2>1, GoToType
  <2>3. QED
    BY <1>2, <2>2 DEF ReadRecorded, Active
<1>3. CASE RunStatement(p) \/ ActOnCheck(p)
  <2>1. CASE Advance(p)
    <3>1. \A q \in Migrator : q # p => state'[q] = state[q] /\ pos'[q] = pos[q]
      BY ZenonT(60), <2>1, AdvanceEffect
    <3>2. QED
      BY <1>3, <3>1 DEF RunStatement, ActOnCheck, Throw, Active
  <2>2. CASE ~Advance(p)
    BY <1>3, <2>2 DEF RunStatement, ActOnCheck, Throw, Active
  <2>3. QED
    BY <2>1, <2>2
<1>4. CASE RecordFile(p)
  <2>1. CASE Throw(p)
    BY <1>4, <2>1 DEF RecordFile, Throw, Active
  <2>2. CASE /\ recorded' = recorded \cup {pos[p][1]}
             /\ GoTo(p, pos[p][1] + 1, applied[p])
             /\ UNCHANGED <<done, applied, tries, alone>>
    <3>1. pos[p][1] + 1 \in Nat \ {0}
      BY StatementType, FileType
    <3>2. \A q \in Migrator : q # p => state'[q] = state[q] /\ pos'[q] = pos[q]
      BY <2>2, <3>1, GoToType
    <3>3. QED
      BY <1>4, <2>2, <3>2 DEF RecordFile, Active
  <2>3. QED
    BY <1>4, <2>1, <2>2 DEF RecordFile
<1>5. CASE KillMigrate(p)
  BY <1>5 DEF KillMigrate, Active
<1>6. QED
  BY <1>1, <1>2, <1>3, <1>4, <1>5 DEF MigrateStep

\* The invariant about the processes that do not move.
LEMMA Others ==
  ASSUME IInv, MigrateTypeOK', NEW p \in Migrator, NEW q \in Migrator, q # p,
         StartMigrate(p) \/ MigrateStep(p) \/ KillMigrate(p)
  PROVE  Follows(q)' /\ Undisturbed(q)' /\ Ended(q)'
<1>1. MigrateTypeOK /\ Follows(q) /\ Undisturbed(q) /\ Ended(q)
  BY DEF IInv
<1>2. /\ done \subseteq done' /\ recorded \subseteq recorded'
      /\ state'[q] = state[q] /\ pos'[q] = pos[q] /\ applied'[q] = applied[q]
      /\ alone'[q] => alone[q]
      /\ q \in Active /\ alone'[q] => p \in Active
  BY <1>1, MigrateFrame
<1>3. Follows(q)'
  BY <1>1, <1>2 DEF Follows, KindOf
<1>4. Undisturbed(q)'
  <2>1. ASSUME q \in Active', alone'[q]
        PROVE  FALSE
    BY <1>1, <1>2, <2>1 DEF Undisturbed, Active
  <2>2. QED
    BY <2>1 DEF Undisturbed
<1>5. Ended(q)'
  <2>1. state[q] = "ok" => recorded' = Files
    BY <1>1, <1>2 DEF Ended, MigrateTypeOK
  <2>2. ASSUME state[q] = "failed", alone'[q]
        PROVE  \E s \in done' : Stuck(s)'
    <3>1. PICK s \in done : Stuck(s)
      BY <1>1, <1>2, <2>2 DEF Ended
    <3>2. MigrateNext /\ \A r \in Migrator : Follows(r)
      BY DEF MigrateNext, IInv
    <3>3. s \in done' /\ Stuck(s)'
      BY <1>1, <3>1, <3>2, StuckStays
    <3>4. QED
      BY <3>3
  <2>3. QED
    BY <1>2, <2>1, <2>2 DEF Ended
<1>6. QED
  BY <1>3, <1>4, <1>5

-----------------------------------------------------------------------------
(* What a step leaves the process that moves. *)

\* It goes to another file.
LEMMA GoToOwn ==
  ASSUME MigrateTypeOK, MigrateTypeOK', NEW p \in Migrator, NEW f \in Nat \ {0},
         GoTo(p, f, applied'[p]), applied'[p] \subseteq recorded',
         \A g \in Files : g < f => g \in recorded'
  PROVE  /\ Follows(p)' /\ Ended(p)' /\ state'[p] \in {"ok", "run"}
         /\ state'[p] = "run" => pos'[p][1] >= f /\ pos'[p][1] \in Nat
<1> DEFINE seen == applied'[p]
<1>1. CASE /\ state' = [state EXCEPT ![p] = "ok"] /\ pos' = pos
           /\ \A g \in Files : g >= f => g \in seen
  <2>1. state'[p] = "ok"
    BY <1>1 DEF MigrateTypeOK
  <2>2. Files \subseteq recorded'
    BY <1>1, FileType
  <2>3. QED
    BY <2>1, <2>2 DEF Follows, Ended, MigrateTypeOK
<1>2. CASE \E g \in Files :
              /\ g \notin seen /\ g >= f
              /\ \A h \in Files : f <= h /\ h < g => h \in seen
              /\ state' = [state EXCEPT ![p] = "run"]
              /\ pos' = [pos EXCEPT ![p] = <<g, 1>>]
              /\ <<g, 1>> \in Statement
  <2>1. PICK g \in Files :
              /\ g \notin seen /\ g >= f
              /\ \A h \in Files : f <= h /\ h < g => h \in seen
              /\ state' = [state EXCEPT ![p] = "run"]
              /\ pos' = [pos EXCEPT ![p] = <<g, 1>>]
    BY <1>2
  <2>2. state'[p] = "run" /\ pos'[p] = <<g, 1>> /\ pos'[p][1] = g /\ pos'[p][2] = 1
    BY <2>1 DEF MigrateTypeOK
  <2>3. \A h \in Files : h < g => h \in recorded'
    <3>1. \A h \in Files : h < f \/ f <= h
      BY FileType
    <3>2. QED
      BY <2>1, <3>1
  <2>4. \A i \in 1..Len(File[g]) : ~(i < 1)
    BY FileType
  <2>5. Follows(p)' /\ Ended(p)'
    BY <2>1, <2>2, <2>3, <2>4 DEF Follows, Ended
  <2>6. QED
    BY <2>1, <2>2, <2>5, FileType
<1>3. QED
  BY <1>1, <1>2, GoToEffect

\* It has executed a statement.
LEMMA AdvanceOwn ==
  ASSUME MigrateTypeOK, MigrateTypeOK', NEW p \in Migrator, Follows(p),
         state[p] \in {"run", "act"}, Advance(p), done' = done \cup {pos[p]},
         recorded' = recorded, applied' = applied
  PROVE  /\ Follows(p)' /\ Ended(p)' /\ state'[p] \in {"run", "record"}
         /\ pos'[p][1] = pos[p][1]
<1> USE DEF MigrateTypeOK
<1>1. pos[p] = <<pos[p][1], pos[p][2]>> /\ pos[p][1] \in Files
      /\ pos[p][2] \in Nat /\ pos[p] \in done'
  BY StatementType, FileType
<1>2. /\ applied[p] \subseteq recorded /\ pos[p][1] \notin applied[p]
      /\ \A g \in Files : g < pos[p][1] => g \in recorded
      /\ \A i \in 1..Len(File[pos[p][1]]) : i < pos[p][2] => <<pos[p][1], i>> \in done
  BY DEF Follows
<1>3. CASE /\ pos[p][2] = Len(File[pos[p][1]])
           /\ state' = [state EXCEPT ![p] = "record"] /\ pos' = pos
  <2>1. state'[p] = "record" /\ pos'[p] = pos[p]
    BY <1>3
  <2>2. QED
    BY <1>1, <1>2, <1>3, <2>1 DEF Follows, Ended
<1>4. CASE /\ state' = [state EXCEPT ![p] = "run"]
           /\ pos' = [pos EXCEPT ![p] = <<pos[p][1], pos[p][2] + 1>>]
  <2>1. state'[p] = "run" /\ pos'[p][1] = pos[p][1] /\ pos'[p][2] = pos[p][2] + 1
    BY <1>4
  <2>2. \A i \in 1..Len(File[pos[p][1]]) : i < pos[p][2] + 1 => i < pos[p][2] \/ i = pos[p][2]
    BY <1>1, FileType
  <2>3. \A i \in 1..Len(File[pos[p][1]]) : i < pos[p][2] + 1 => <<pos[p][1], i>> \in done'
    BY <1>1, <1>2, <2>2
  <2>4. QED
    BY <1>2, <2>1, <2>3 DEF Follows, Ended
<1>5. QED
  BY <1>3, <1>4, AdvanceEffect

\* It fails; that is for good when nobody was in its way.
LEMMA ThrowOwn ==
  ASSUME IInv, MigrateTypeOK', NEW p \in Migrator, p \in Active, Throw(p),
         alone[p] => KindOf(p) = "plain" /\ pos[p] \in done /\ state[p] = "run"
  PROVE  RecordedIsComplete' /\ Follows(p)' /\ Undisturbed(p)' /\ Ended(p)'
<1>1. MigrateTypeOK /\ RecordedIsComplete /\ Undisturbed(p) /\ Follows(p)
  BY DEF IInv
<1>2. state'[p] = "failed" /\ UNCHANGED <<done, recorded, applied, pos, tries, alone>>
  BY <1>1 DEF Throw, MigrateTypeOK
<1>3. RecordedIsComplete' /\ Follows(p)' /\ Undisturbed(p)'
  BY <1>1, <1>2 DEF RecordedIsComplete, Follows, Undisturbed, Active
<1>4. ASSUME alone[p]
      PROVE  \E s \in done' : Stuck(s)'
  <2>1. pos[p] \in done' /\ File[pos[p][1]][pos[p][2]] = "plain" /\ state[p] = "run"
    BY <1>2, <1>4 DEF KindOf
  <2>2. pos[p][1] \notin recorded'
    <3>1. pos[p][1] \in Nat
      BY <1>1, StatementType, FileType DEF MigrateTypeOK
    <3>2. pos[p][1] \notin applied[p] /\ ~(pos[p][1] < pos[p][1])
      BY <1>1, <2>1, <3>1 DEF Follows
    <3>3. QED
      BY <1>1, <1>2, <1>4, <2>1, <3>2 DEF Undisturbed
  <2>3. \A q \in Migrator : state'[q] \notin {"run", "act", "record"}
    BY <1>1, <1>2, <1>4 DEF Undisturbed, Active, Throw, MigrateTypeOK
  <2>4. Stuck(pos[p])'
    BY <1>2, <2>1, <2>2, <2>3 DEF Stuck
  <2>5. QED
    BY <1>2, <2>1, <2>2, <2>3 DEF Stuck
<1>5. QED
  BY <1>2, <1>3, <1>4 DEF Ended

\* A process that has just moved is still by itself when it was before.
LEMMA StillAlone ==
  ASSUME IInv, NEW p \in Migrator, p \in Active, MigrateStep(p), alone'[p]
  PROVE  alone[p] /\ \A q \in Active' : q = p
<1>1. MigrateTypeOK /\ Undisturbed(p)
  BY DEF IInv
<1>2. alone[p]
  BY DEF MigrateStep, ReadRecorded, RunStatement, ActOnCheck, RecordFile, Throw
<1>3. \A q \in Migrator : q # p => state'[q] = state[q]
  BY <1>1, MigrateFrame
<1>4. QED
  BY <1>1, <1>2, <1>3 DEF Undisturbed, Active

\* The invariant about the process that moves, and the tables.
LEMMA OwnStep ==
  ASSUME IInv, MigrateTypeOK', NEW p \in Migrator,
         StartMigrate(p) \/ MigrateStep(p) \/ KillMigrate(p)
  PROVE  RecordedIsComplete' /\ Follows(p)' /\ Undisturbed(p)' /\ Ended(p)'
<1>1. MigrateTypeOK /\ RecordedIsComplete /\ Follows(p) /\ Undisturbed(p) /\ Ended(p)
  BY DEF IInv
<1>2. pos[p] \in Statement /\ pos[p] = <<pos[p][1], pos[p][2]>>
      /\ pos[p][1] \in Files /\ pos[p][1] \in Nat /\ pos[p][1] + 1 \in Nat \ {0}
  BY <1>1, StatementType, FileType DEF MigrateTypeOK
<1>3. CASE StartMigrate(p)
  <2>1. state'[p] = "read" /\ UNCHANGED <<done, recorded>>
    BY <1>1, <1>3 DEF StartMigrate, MigrateTypeOK
  <2>2. alone'[p] = (Active = {})
    BY <1>1, <1>3, Zenon DEF StartMigrate, MigrateTypeOK
  <2>3. alone'[p] => \A q \in Active' : q = p
    BY <1>1, <1>3, <2>2 DEF StartMigrate, Active, MigrateTypeOK
  <2>4. QED
    BY <1>1, <2>1, <2>3 DEF RecordedIsComplete, Follows, Undisturbed, Ended
<1>4. CASE KillMigrate(p)
  <2>1. state'[p] = "dead" /\ UNCHANGED <<done, recorded>>
    BY <1>1, <1>4 DEF KillMigrate, MigrateTypeOK
  <2>2. QED
    BY <1>1, <2>1 DEF RecordedIsComplete, Follows, Undisturbed, Ended, Active
<1>5. CASE ReadRecorded(p)
  <2>1. /\ p \in Active /\ MigrateStep(p) /\ 1 \in Nat \ {0}
        /\ applied'[p] = recorded /\ recorded' = recorded /\ done' = done
        /\ GoTo(p, 1, applied'[p])
    BY <1>1, <1>5 DEF ReadRecorded, Active, MigrateStep, MigrateTypeOK
  <2>2. \A g \in Files : ~(g < 1)
    BY FileType
  <2>3. Follows(p)' /\ Ended(p)' /\ state'[p] \in {"ok", "run"}
    BY <1>1, <2>1, <2>2, GoToOwn
  <2>4. Undisturbed(p)'
    BY <2>1, <2>3, StillAlone DEF Undisturbed
  <2>5. QED
    BY <1>1, <2>1, <2>3, <2>4 DEF RecordedIsComplete
<1>6. CASE RunStatement(p)
  <2>1. p \in Active /\ MigrateStep(p) /\ state[p] = "run"
    BY <1>6 DEF RunStatement, Active, MigrateStep
  <2>2. CASE KindOf(p) = "plain" /\ pos[p] \in done
    <3>1. Throw(p)
      BY <1>6, <2>2 DEF RunStatement
    <3>2. QED
      BY <2>1, <2>2, <3>1, ThrowOwn
  <2>3. CASE /\ KindOf(p) = "checked" /\ pos[p] \notin done
             /\ state' = [state EXCEPT ![p] = "act"]
             /\ UNCHANGED <<done, pos, recorded, applied, tries, alone>>
    <3>1. state'[p] = "act"
      BY <1>1, <2>3 DEF MigrateTypeOK
    <3>2. Follows(p)' /\ Ended(p)' /\ RecordedIsComplete'
      BY <1>1, <2>1, <2>3, <3>1 DEF Follows, Ended, RecordedIsComplete, KindOf
    <3>3. Undisturbed(p)'
      BY <1>1, <2>1, <2>3, <3>1, StillAlone DEF Undisturbed
    <3>4. QED
      BY <3>2, <3>3
  <2>4. CASE /\ done' = done \cup {pos[p]} /\ Advance(p)
             /\ UNCHANGED <<recorded, applied, tries, alone>>
    <3>1. Follows(p)' /\ Ended(p)' /\ state'[p] \in {"run", "record"} /\ pos'[p][1] = pos[p][1]
      BY <1>1, <2>1, <2>4, AdvanceOwn
    <3>2. Undisturbed(p)'
      BY <1>1, <2>1, <2>4, <3>1, StillAlone DEF Undisturbed
    <3>3. QED
      BY <1>1, <2>4, <3>1, <3>2 DEF RecordedIsComplete
  <2>5. QED
    BY <1>6, <2>2, <2>3, <2>4 DEF RunStatement
<1>7. CASE ActOnCheck(p)
  <2>1. p \in Active /\ MigrateStep(p) /\ state[p] = "act"
    BY <1>7 DEF ActOnCheck, Active, MigrateStep
  <2>2. CASE pos[p] \in done
    <3>1. Throw(p) /\ ~alone[p]
      BY <1>1, <1>7, <2>1, <2>2 DEF ActOnCheck, Undisturbed
    <3>2. QED
      BY <2>1, <3>1, ThrowOwn
  <2>3. CASE /\ done' = done \cup {pos[p]} /\ Advance(p)
             /\ UNCHANGED <<recorded, applied, tries, alone>>
    <3>1. Follows(p)' /\ Ended(p)' /\ state'[p] \in {"run", "record"} /\ pos'[p][1] = pos[p][1]
      BY <1>1, <2>1, <2>3, AdvanceOwn
    <3>2. Undisturbed(p)'
      BY <1>1, <2>1, <2>3, <3>1, StillAlone DEF Undisturbed
    <3>3. QED
      BY <1>1, <2>3, <3>1, <3>2 DEF RecordedIsComplete
  <2>4. QED
    BY <1>7, <2>2, <2>3 DEF ActOnCheck
<1>8. CASE RecordFile(p)
  <2>1. p \in Active /\ MigrateStep(p) /\ state[p] = "record"
    BY <1>8 DEF RecordFile, Active, MigrateStep
  <2>2. /\ applied[p] \subseteq recorded /\ pos[p][1] \notin applied[p]
        /\ \A g \in Files : g < pos[p][1] => g \in recorded
        /\ \A i \in 1..Len(File[pos[p][1]]) : i < pos[p][2] => <<pos[p][1], i>> \in done
        /\ pos[p][2] = Len(File[pos[p][1]]) /\ pos[p] \in done
    BY <1>1, <2>1 DEF Follows
  <2>3. CASE pos[p][1] \in recorded
    <3>1. Throw(p)
      BY <1>8, <2>3 DEF RecordFile
    <3>2. ~(pos[p][1] < pos[p][1])
      BY <1>2
    <3>3. ~alone[p]
      BY <1>1, <2>1, <2>2, <2>3, <3>2 DEF Undisturbed
    <3>4. QED
      BY <2>1, <3>1, <3>3, ThrowOwn
  <2>4. CASE /\ recorded' = recorded \cup {pos[p][1]}
             /\ GoTo(p, pos[p][1] + 1, applied[p])
             /\ UNCHANGED <<done, applied, tries, alone>>
    <3>1. \A g \in Files : g < pos[p][1] + 1 => g \in recorded'
      BY <1>2, <2>2, <2>4, FileType
    <3>2. /\ Follows(p)' /\ Ended(p)' /\ state'[p] \in {"ok", "run"}
          /\ state'[p] = "run" => pos'[p][1] >= pos[p][1] + 1 /\ pos'[p][1] \in Nat
      BY <1>1, <1>2, <2>2, <2>4, <3>1, GoToOwn
    <3>3. Undisturbed(p)'
      <4>1. ASSUME state'[p] = "run", alone[p], NEW g \in recorded'
            PROVE  g \in applied[p] \/ g < pos'[p][1]
        <5>1. g \in Nat
          BY <2>4, <1>2, <1>1, FileType DEF MigrateTypeOK
        <5>2. g \in applied[p] \/ g < pos[p][1] \/ g = pos[p][1]
          BY <1>1, <2>1, <2>4, <4>1 DEF Undisturbed
        <5>3. QED
          BY <1>2, <3>2, <4>1, <5>1, <5>2
      <4>2. alone'[p] => alone[p] /\ \A q \in Active' : q = p
        BY <1>1, <2>1, <2>4, StillAlone DEF Undisturbed
      <4>3. applied' = applied /\ state'[p] # "act" /\ state'[p] # "record"
        BY <2>4, <3>2
      <4>4. state'[p] = "ok" => p \notin Active'
        BY DEF Active
      <4>5. QED
        BY <3>2, <4>1, <4>2, <4>3, <4>4 DEF Undisturbed
    <3>4. RecordedIsComplete'
      <4>1. \A i \in 1..Len(File[pos[p][1]]) : <<pos[p][1], i>> \in done
        <5>1. \A i \in 1..Len(File[pos[p][1]]) : i < pos[p][2] \/ i = pos[p][2]
          BY <1>2, <2>2, FileType
        <5>2. QED
          BY <1>2, <2>2, <5>1
      <4>2. ASSUME NEW f \in recorded', NEW g \in 1..f
            PROVE  g \in recorded' /\ \A i \in 1..Len(File[g]) : <<g, i>> \in done'
        <5>1. CASE f \in recorded
          BY <1>1, <2>4, <5>1 DEF RecordedIsComplete
        <5>2. CASE f = pos[p][1] /\ g = f
          BY <2>4, <4>1, <5>2
        <5>3. CASE f = pos[p][1] /\ g # f
          <6>1. g \in Files /\ g < pos[p][1] /\ g \in 1..g
            BY <1>2, <5>3, FileType
          <6>2. g \in recorded
            BY <2>2, <6>1
          <6>3. QED
            BY <1>1, <2>4, <6>1, <6>2 DEF RecordedIsComplete
        <5>4. QED
          BY <2>4, <5>1, <5>2, <5>3
      <4>3. QED
        BY <4>2 DEF RecordedIsComplete
    <3>5. QED
      BY <3>2, <3>3, <3>4
  <2>5. QED
    BY <1>8, <2>3, <2>4 DEF RecordFile
<1>9. QED
  BY <1>3, <1>4, <1>5, <1>6, <1>7, <1>8 DEF MigrateStep

-----------------------------------------------------------------------------
(* The theorems. *)

\* The inductive invariant holds at the start.
LEMMA InvInit == MigrateInit => IInv
BY TypeInit DEF MigrateInit, IInv, RecordedIsComplete, Follows, Undisturbed, Ended, Active

\* Every step keeps it.
LEMMA InvStep == IInv /\ [MigrateNext]_migrateVars => IInv'
<1> SUFFICES ASSUME IInv, [MigrateNext]_migrateVars PROVE IInv'
  OBVIOUS
<1>1. MigrateTypeOK'
  BY TypeStep DEF IInv
<1>2. CASE UNCHANGED migrateVars
  BY <1>1, <1>2 DEF IInv, migrateVars, RecordedIsComplete, Follows, Undisturbed, Ended,
                    Active, KindOf, Stuck
<1>3. ASSUME NEW p \in Migrator, StartMigrate(p) \/ MigrateStep(p) \/ KillMigrate(p)
      PROVE  IInv'
  <2>1. RecordedIsComplete' /\ Follows(p)' /\ Undisturbed(p)' /\ Ended(p)'
    BY <1>1, <1>3, OwnStep
  <2>2. \A q \in Migrator : q # p => Follows(q)' /\ Undisturbed(q)' /\ Ended(q)'
    BY <1>1, <1>3, Others
  <2>3. QED
    BY <1>1, <2>1, <2>2 DEF IInv
<1>4. QED
  BY <1>2, <1>3 DEF MigrateNext

\* The inductive invariant holds always.
THEOREM InvAlways == MigrateSpec => []IInv
BY InvInit, InvStep, PTL DEF MigrateSpec

\* A recorded file and those before it have been executed to the end, for every
\* list of files and any number of processes that run, fail and die.
THEOREM RecordedIsCompleteAlways == MigrateSpec => []RecordedIsComplete
<1>1. IInv => RecordedIsComplete
  BY DEF IInv
<1>2. QED
  BY InvAlways, <1>1, PTL

\* Without another process in its way db:migrate fails only on a file that was
\* cut in two, and a run that ends well leaves everything recorded.
THEOREM RerunHealsAlways == MigrateSpec => []RerunHeals
<1>1. ASSUME IInv PROVE RerunHeals
  <2>1. ASSUME NEW p \in Migrator, state[p] = "failed", alone[p]
        PROVE  Torn
    <3>1. PICK s \in done : Stuck(s)
      BY <1>1, <2>1 DEF IInv, Ended
    <3>2. QED
      BY <3>1 DEF Stuck, Torn
  <2>2. QED
    BY <1>1, <2>1 DEF RerunHeals, IInv, Ended
<1>2. QED
  BY InvAlways, <1>1, PTL
=============================================================================
