--------------------------- MODULE AppLocksProofs ---------------------------
(***************************************************************************)
(* Proofs about AppLocks for every set of sessions and names, every request*)
(* list, every TTL and renewal interval, any number of failing statements, *)
(* and with or without promptness.                                         *)
(***************************************************************************)
EXTENDS AppLocks, TLAPS

\* The handles a session has agree with where it is in withAppLocks.
GotInv ==
  \A s \in Session :
    /\ pc[s] \in {"idle", "ended"} => got[s] = 0
    /\ Acquiring(s) => got[s] < Len(Request[s])
    /\ Releasing(s) => got[s] >= 1
    /\ pc[s] = "running" => got[s] = Len(Request[s])

TypeInv == TypeOK /\ GotInv

-----------------------------------------------------------------------------
\* A request list is a non-empty sequence of names.
LEMMA RequestFacts ==
  ASSUME NEW s \in Session
  PROVE  /\ Request[s] \in Seq(Name)
         /\ Len(Request[s]) \in Nat /\ Len(Request[s]) >= 1
         /\ \A i \in 1..Len(Request[s]) : Request[s][i] \in Name
BY RequestAssumption

\* A row under a fresh lease, and a row just released, are rows.
LEMMA RowFacts ==
  ASSUME NEW s \in Session
  PROVE  /\ Leased(s) \in Row
         /\ [owner |-> s, left |-> 0] \in Row
BY TimeAssumption DEF Leased, Row, Left

\* What a lease can have left, and that time keeps it there.
LEMMA LeftFacts ==
  /\ -1 \in Left /\ 0 \in Left /\ TTL \in Left
  /\ \A x \in Left : LeaseLess(x) \in Left
BY TimeAssumption DEF Left, LeaseLess

\* A countdown starts and stays within its bounds.
LEMMA TickFacts ==
  /\ 0 \in Ticks(RenewEvery) /\ RenewEvery \in Ticks(RenewEvery)
  /\ 0 \in Ticks(Delay) /\ Delay \in Ticks(Delay)
  /\ 0 \in Ticks(MaxErrors)
  /\ \A t \in Ticks(RenewEvery) : Less(t) \in Ticks(RenewEvery)
  /\ \A t \in Ticks(Delay) : Less(t) \in Ticks(Delay)
  /\ \A e \in Ticks(MaxErrors) : e < MaxErrors => e + 1 \in Ticks(MaxErrors)
BY TimeAssumption DEF Ticks, Less

\* A rejected Promise.all moves lock names about.
LEMMA RejectType ==
  ASSUME TypeOK, NEW s \in Session, NEW n \in Name, Reject(s, n)
  PROVE  /\ cur' \in [Session -> SUBSET Name]
         /\ old' \in [Session -> SUBSET Name]
         /\ lost' \in [Session -> BOOLEAN]
<1>1. /\ {} \subseteq Name
      /\ (old[s] \cup cur[s]) \ {n} \subseteq Name
      /\ old[s] \ {n} \subseteq Name
  BY DEF TypeOK
<1>2. cur' \in [Session -> SUBSET Name] /\ old' \in [Session -> SUBSET Name]
  <2>1. cur \in [Session -> SUBSET Name] /\ old \in [Session -> SUBSET Name]
    BY DEF TypeOK
  <2>2. CASE n \in cur[s]
    <3>1. /\ cur' = [cur EXCEPT ![s] = {}]
          /\ old' = [old EXCEPT ![s] = (old[s] \cup cur[s]) \ {n}]
      BY <2>2 DEF Reject
    <3>2. QED
      BY <1>1, <2>1, <3>1
  <2>3. CASE n \notin cur[s]
    <3>1. cur' = cur /\ old' = [old EXCEPT ![s] = old[s] \ {n}]
      BY <2>3 DEF Reject
    <3>2. QED
      BY <1>1, <2>1, <3>1
  <2>4. QED
    BY <2>2, <2>3
<1>3. lost' \in [Session -> BOOLEAN]
  BY DEF Reject, TypeOK
<1>4. QED
  BY <1>2, <1>3

\* The outstanding statement is about a lock name.
LEMMA TargetType ==
  ASSUME TypeInv, NEW s \in Session, Acquiring(s) \/ Releasing(s)
  PROVE  Target(s) \in Name
BY RequestFacts DEF TypeInv, TypeOK, GotInv, Target, Acquiring, Releasing

\* No statement takes the table out of its type.
LEMMA EffectType ==
  ASSUME TypeInv, NEW s \in Session, Acquiring(s) \/ Releasing(s)
  PROVE  Effect(s) \in [Name -> Row]
<1>1. Target(s) \in Name
  BY TargetType
<1>2. QED
  BY <1>1, RowFacts, LeftFacts DEF TypeInv, TypeOK, Effect

\* A statement of a renewal changes rows and lifetimes within their types.
LEMMA RenewedType ==
  ASSUME TypeOK, NEW s \in Session, NEW n \in Name
  PROVE  Renewed(s, n) \in [Name -> Row]
BY RowFacts, LeftFacts DEF TypeOK, Renewed

\* Ending an invocation keeps the types of what it writes.
LEMMA EndType ==
  ASSUME TypeInv, NEW s \in Session, NEW r \in Results, End(s, r)
  PROVE  /\ pc' \in [Session -> PCs]
         /\ got' \in [Session -> Nat]
         /\ \A t \in Session : got'[t] <= Len(Request[t])
         /\ lease' \in [Session -> [Name -> Left]]
         /\ result' \in [Session -> Results]
         /\ timer' \in [Session -> Ticks(RenewEvery)]
         /\ wait' \in [Session -> Ticks(Delay)]
         /\ GotInv'
<1>1. /\ pc' \in [Session -> PCs]
      /\ lease' \in [Session -> [Name -> Left]]
      /\ result' \in [Session -> Results]
      /\ timer' \in [Session -> Ticks(RenewEvery)]
      /\ wait' \in [Session -> Ticks(Delay)]
  BY RowFacts, LeftFacts, TickFacts DEF TypeInv, TypeOK, End, PCs
<1>2. /\ got' \in [Session -> Nat]
      /\ \A t \in Session : got'[t] <= Len(Request[t])
  BY RequestFacts DEF TypeInv, TypeOK, End
<1>3. GotInv'
  BY DEF TypeInv, TypeOK, GotInv, End, Acquiring, Releasing
<1>4. QED
  BY <1>1, <1>2, <1>3

-----------------------------------------------------------------------------
\* The types hold before any withAppLocks.
LEMMA TypeInit == Init => TypeInv
<1>1. -1 \in Left /\ [owner |-> NoOwner, left |-> -1] \in Row
  BY TimeAssumption DEF Left, Row
<1>2. QED
  BY <1>1, RequestFacts, TickFacts
  DEF Init, TypeInv, TypeOK, GotInv, PCs, Results, Acquiring, Releasing

\* Every statement, timer and crash keeps the types.
LEMMA TypeStep == TypeInv /\ [Next]_vars => TypeInv'
<1> SUFFICES ASSUME TypeInv, [Next]_vars
             PROVE  TypeOK' /\ GotInv'
  BY DEF TypeInv
<1> USE DEF TypeInv
<1>1. ASSUME NEW s \in Session, Start(s)
      PROVE  TypeOK' /\ GotInv'
  <2>1. TypeOK'
    BY <1>1, TickFacts DEF Start, TypeOK, PCs
  <2>2. GotInv'
    BY <1>1, RequestFacts DEF Start, TypeOK, GotInv, Acquiring, Releasing
  <2>3. QED
    BY <2>1, <2>2
<1>2. ASSUME NEW s \in Session, Acquiring(s), Push(s)
      PROVE  TypeOK' /\ GotInv'
  <2>1. row' \in [Name -> Row]
    BY <1>2, EffectType DEF Push
  <2>2. lease' \in [Session -> [Name -> Left]]
    BY <1>2, TargetType, RowFacts, LeftFacts DEF Push, TypeOK
  <2>3. /\ pc' \in [Session -> PCs]
        /\ timer' \in [Session -> Ticks(RenewEvery)]
        /\ wait' \in [Session -> Ticks(Delay)]
    BY <1>2, TickFacts DEF Push, TypeOK, PCs
  <2>4. /\ got' \in [Session -> Nat]
        /\ \A t \in Session : got'[t] <= Len(Request[t])
    BY <1>2, RequestFacts DEF Push, TypeOK, GotInv
  <2>5. GotInv'
    BY <1>2, RequestFacts DEF Push, TypeOK, GotInv, Acquiring, Releasing
  <2>6. QED
    BY <1>2, <2>1, <2>2, <2>3, <2>4, <2>5 DEF Push, TypeOK
<1>3. ASSUME NEW s \in Session, RowExists(s)
      PROVE  TypeOK' /\ GotInv'
  <2>1. TypeOK'
    BY <1>3, TickFacts DEF RowExists, TypeOK, PCs
  <2>2. GotInv'
    BY <1>3, RequestFacts DEF RowExists, TypeOK, GotInv, Acquiring, Releasing
  <2>3. QED
    BY <2>1, <2>2
<1>4. ASSUME NEW s \in Session, Refuse(s)
      PROVE  TypeOK' /\ GotInv'
  <2>1. CASE got[s] = 0
    <3>1. "refused" \in Results
      BY DEF Results
    <3>2. QED
      BY <1>4, <2>1, <3>1, EndType DEF Refuse, TypeOK
  <2>2. CASE got[s] # 0
    <3>1. TypeOK'
      <4>1. "rollback" \in PCs /\ "refused" \in Results
        BY DEF PCs, Results
      <4>2. QED
        BY ZenonT(60), <1>4, <2>2, <4>1, TickFacts DEF Refuse, TypeOK
    <3>2. GotInv'
      BY <1>4, <2>2, RequestFacts DEF Refuse, TypeOK, GotInv, Acquiring, Releasing
    <3>3. QED
      BY <3>1, <3>2
  <2>3. QED
    BY <2>1, <2>2
<1>5. ASSUME NEW s \in Session, FinishCallback(s)
      PROVE  TypeOK' /\ GotInv'
  <2>1. TypeOK'
    BY <1>5, TickFacts DEF FinishCallback, TypeOK, PCs, Results
  <2>2. GotInv'
    BY <1>5, RequestFacts DEF FinishCallback, TypeOK, GotInv, Acquiring, Releasing
  <2>3. QED
    BY <2>1, <2>2
<1>6. ASSUME NEW s \in Session, Release(s)
      PROVE  TypeOK' /\ GotInv'
  <2>1. row' \in [Name -> Row]
    BY <1>6, EffectType DEF Release
  <2>2. CASE got[s] = 1
    <3>1. result[s] \in Results
      BY DEF TypeOK
    <3>2. QED
      BY <1>6, <2>1, <2>2, <3>1, EndType DEF Release, TypeOK
  <2>3. CASE got[s] # 1
    <3>1. lease' \in [Session -> [Name -> Left]]
      <4>1. lease' = [lease EXCEPT ![s][Target(s)] = -1]
        BY <1>6, <2>3 DEF Release
      <4>2. Target(s) \in Name /\ -1 \in Left /\ lease \in [Session -> [Name -> Left]]
        BY <1>6, TargetType, LeftFacts DEF Release, TypeOK
      <4>3. QED
        BY <4>1, <4>2
    <3>2. wait' \in [Session -> Ticks(Delay)]
      BY <1>6, <2>3, TickFacts DEF Release, TypeOK
    <3>3. /\ got' \in [Session -> Nat]
          /\ \A t \in Session : got'[t] <= Len(Request[t])
      <4>1. got' = [got EXCEPT ![s] = got[s] - 1] /\ got[s] >= 1
        BY <1>6, <2>3 DEF Release, GotInv
      <4>2. got \in [Session -> Nat] /\ \A t \in Session : got[t] <= Len(Request[t])
        BY DEF TypeOK
      <4>3. QED
        BY <4>1, <4>2, RequestFacts
    <3>4. GotInv'
      BY <1>6, <2>3, RequestFacts DEF Release, TypeOK, GotInv, Acquiring, Releasing
    <3>5. QED
      BY <1>6, <2>1, <2>3, <3>1, <3>2, <3>3, <3>4 DEF Release, TypeOK
  <2>4. QED
    BY <2>2, <2>3
<1>7. ASSUME NEW s \in Session, StatementFails(s)
      PROVE  TypeOK' /\ GotInv'
  <2>1. row' \in [Name -> Row]
    BY <1>7, EffectType DEF StatementFails, TypeOK
  <2>2. "dberror" \in Results
    BY DEF Results
  <2>3. errors' \in Ticks(MaxErrors)
    BY <1>7, TickFacts DEF StatementFails, TypeOK
  <2>4. QED
    BY <1>7, <2>1, <2>2, <2>3, EndType DEF StatementFails, TypeOK
<1>8. ASSUME NEW s \in Session, Crash(s)
      PROVE  TypeOK' /\ GotInv'
  <2>1. pc[s] = "running" \/ Acquiring(s) \/ Releasing(s)
    BY <1>8 DEF Crash, TypeOK, PCs, Acquiring, Releasing
  <2>2. row' \in [Name -> Row]
    BY <1>8, <2>1, EffectType DEF Crash, TypeOK
  <2>3. old' \in [Session -> SUBSET Name] /\ cur' \in [Session -> SUBSET Name]
    BY <1>8 DEF Crash, TypeOK
  <2>4. "crashed" \in Results
    BY DEF Results
  <2>5. QED
    BY <1>8, <2>2, <2>3, <2>4, EndType DEF Crash, TypeOK
<1>9. ASSUME NEW s \in Session, FireTimer(s)
      PROVE  TypeOK' /\ GotInv'
  <2>1. Names(s) \in SUBSET Name
    BY RequestFacts DEF Names
  <2>2. cur' \in [Session -> SUBSET Name] /\ rwait' \in [Session -> Ticks(Delay)]
    <3>1. \/ cur' = [cur EXCEPT ![s] = Names(s)] /\ rwait' = [rwait EXCEPT ![s] = Delay]
          \/ cur' = cur /\ rwait' = rwait
      BY <1>9 DEF FireTimer
    <3>2. cur \in [Session -> SUBSET Name] /\ rwait \in [Session -> Ticks(Delay)]
      BY DEF TypeOK
    <3>3. QED
      BY <2>1, <3>1, <3>2, TickFacts
  <2>3. TypeOK'
    BY <1>9, <2>2, TickFacts DEF FireTimer, TypeOK
  <2>4. GotInv'
    BY <1>9 DEF FireTimer, GotInv, Acquiring, Releasing
  <2>5. QED
    BY <2>3, <2>4
<1>10. ASSUME NEW s \in Session, NEW n \in Name, Renew(s, n)
       PROVE  TypeOK' /\ GotInv'
  <2>1. row' \in [Name -> Row]
    BY <1>10, RenewedType DEF Renew
  <2>2. lease' \in [Session -> [Name -> Left]]
    <3>1. (IF n \in Held(s) THEN TTL ELSE -1) \in Left
      BY RowFacts, LeftFacts
    <3>2. QED
      <4>1. \/ lease' = lease
            \/ lease' = [lease EXCEPT ![s][n] = IF n \in Held(s) THEN TTL ELSE -1]
        BY <1>10 DEF Renew
      <4>2. lease \in [Session -> [Name -> Left]]
        BY DEF TypeOK
      <4>3. QED
        BY <3>1, <4>1, <4>2
  <2>3. /\ cur' \in [Session -> SUBSET Name]
        /\ old' \in [Session -> SUBSET Name]
        /\ lost' \in [Session -> BOOLEAN]
    <3>1. CASE row[n].owner = s
      <4>1. /\ cur' = [cur EXCEPT ![s] = cur[s] \ {n}]
            /\ old' = [old EXCEPT ![s] = old[s] \ {n}]
            /\ lost' = lost
        BY <1>10, <3>1 DEF Renew
      <4>2. /\ cur \in [Session -> SUBSET Name]
            /\ old \in [Session -> SUBSET Name]
            /\ lost \in [Session -> BOOLEAN]
        BY DEF TypeOK
      <4>3. QED
        BY <4>1, <4>2
    <3>2. CASE row[n].owner # s
      BY <1>10, <3>2, RejectType DEF Renew
    <3>3. QED
      BY <3>1, <3>2
  <2>4. TypeOK'
    BY <1>10, <2>1, <2>2, <2>3 DEF Renew, TypeOK
  <2>5. GotInv'
    BY <1>10 DEF Renew, GotInv, Acquiring, Releasing
  <2>6. QED
    BY <2>4, <2>5
<1>11. ASSUME NEW s \in Session, NEW n \in Name, RenewFails(s, n)
       PROVE  TypeOK' /\ GotInv'
  <2>1. row' \in [Name -> Row]
    BY <1>11, RenewedType DEF RenewFails, TypeOK
  <2>2. lease' \in [Session -> [Name -> Left]]
    <3>1. (IF n \in Held(s) THEN TTL ELSE -1) \in Left
      BY RowFacts, LeftFacts
    <3>2. QED
      <4>1. \/ lease' = lease
            \/ lease' = [lease EXCEPT ![s][n] = IF n \in Held(s) THEN TTL ELSE -1]
        BY <1>11 DEF RenewFails
      <4>2. lease \in [Session -> [Name -> Left]]
        BY DEF TypeOK
      <4>3. QED
        BY <3>1, <4>1, <4>2
  <2>3. /\ cur' \in [Session -> SUBSET Name]
        /\ old' \in [Session -> SUBSET Name]
        /\ lost' \in [Session -> BOOLEAN]
    BY <1>11, RejectType DEF RenewFails
  <2>4. errors' \in Ticks(MaxErrors)
    BY <1>11, TickFacts DEF RenewFails, TypeOK
  <2>5. TypeOK'
    BY <1>11, <2>1, <2>2, <2>3, <2>4 DEF RenewFails, TypeOK
  <2>6. GotInv'
    BY <1>11 DEF RenewFails, GotInv, Acquiring, Releasing
  <2>7. QED
    BY <2>5, <2>6
<1>12. ASSUME Tick
       PROVE  TypeOK' /\ GotInv'
  <2>1. row' \in [Name -> Row]
    <3>1. \A n \in Name : [owner |-> row[n].owner, left |-> LeaseLess(row[n].left)] \in Row
      <4>1. ASSUME NEW n \in Name
            PROVE  /\ row[n].owner \in Session \cup {NoOwner}
                   /\ LeaseLess(row[n].left) \in Left
        BY LeftFacts DEF TypeOK, Row
      <4>2. QED
        BY <4>1 DEF Row
    <3>2. QED
      BY <1>12, <3>1 DEF Tick
  <2>2. lease' \in [Session -> [Name -> Left]]
    BY <1>12, RowFacts, LeftFacts DEF Tick, TypeOK
  <2>3. /\ timer' \in [Session -> Ticks(RenewEvery)]
        /\ wait' \in [Session -> Ticks(Delay)]
        /\ rwait' \in [Session -> Ticks(Delay)]
    BY <1>12, TickFacts DEF Tick, TypeOK
  <2>4. TypeOK'
    BY <1>12, <2>1, <2>2, <2>3 DEF Tick, TypeOK
  <2>5. GotInv'
    BY <1>12 DEF Tick, GotInv, Acquiring, Releasing
  <2>6. QED
    BY <2>4, <2>5
<1>13. ASSUME UNCHANGED vars
       PROVE  TypeOK' /\ GotInv'
  BY <1>13 DEF vars, TypeOK, GotInv, Acquiring, Releasing
<1>14. QED
  BY <1>1, <1>2, <1>3, <1>4, <1>5, <1>6, <1>7, <1>8, <1>9, <1>10, <1>11, <1>12, <1>13
  DEF Next, Foreground, InsertRow, TakeOver, Acquiring

\* Every variable keeps its type, and the number of handles agrees with the
\* program counter, in every behaviour of withAppLocks.
THEOREM TypeCorrect == Spec => [](TypeOK /\ GotInv)
<1>1. QED
  BY TypeInit, TypeStep, PTL DEF Spec, TypeInv

-----------------------------------------------------------------------------
(* The lease a session believes in is the row of the table. *)

\* What a row says of one session's lease on one name.
LeaseAt(s, n) ==
  lease[s][n] >= 0 => row[n] = [owner |-> s, left |-> lease[s][n]]

\* A statement that writes row n, whoever sends it, leaves the lease of a
\* session it does not concern as it was.
LEMMA LeaseKept ==
  ASSUME TypeInv, NEW t \in Session, NEW m \in Name, LeaseAt(t, m),
         row'[m] = row[m], lease'[t][m] = lease[t][m] \/ lease'[t][m] = -1
  PROVE  LeaseAt(t, m)'
BY DEF LeaseAt

\* The outstanding statement of s changes no row that another session leases.
LEMMA EffectSpares ==
  ASSUME TypeInv, NEW s \in Session, NEW t \in Session, t # s, NEW m \in Name,
         Acquiring(s) \/ Releasing(s), LeaseAt(t, m), lease[t][m] >= 0
  PROVE  Effect(s)[m] = row[m]
<1>1. row[m] = [owner |-> t, left |-> lease[t][m]]
  BY DEF LeaseAt
<1>2. row[m].owner = t /\ row[m].left = lease[t][m]
  BY <1>1
<1>3. CASE Target(s) # m
  BY <1>3 DEF Effect, TypeInv, TypeOK
<1>4. CASE Target(s) = m
  <2>1. ~Matches(s)
    BY <1>2, <1>4, NameAssumption
    DEF Matches, Acquiring, Releasing, TypeInv, TypeOK, Left
  <2>2. QED
    BY <2>1 DEF Effect
<1>5. QED
  BY <1>3, <1>4

\* Ending an invocation with any effect of its outstanding statement.
LEMMA EndKeepsLeases ==
  ASSUME TypeInv, LeaseIsRow, NEW s \in Session, NEW r, End(s, r),
         row' = row \/ (row' = Effect(s) /\ (Acquiring(s) \/ Releasing(s)))
  PROVE  LeaseIsRow'
<1> SUFFICES ASSUME NEW t \in Session, NEW m \in Name
             PROVE  LeaseAt(t, m)'
  BY DEF LeaseIsRow, LeaseAt
<1>1. LeaseAt(t, m)
  BY DEF LeaseIsRow, LeaseAt
<1>2. CASE t = s
  <2>1. lease'[t][m] = -1
    BY <1>2 DEF End, TypeInv, TypeOK
  <2>2. QED
    BY <2>1 DEF LeaseAt
<1>3. CASE t # s
  <2>1. lease'[t][m] = lease[t][m]
    BY <1>3 DEF End, TypeInv, TypeOK
  <2>2. CASE lease[t][m] >= 0
    BY <1>1, <1>3, <2>1, <2>2, EffectSpares DEF LeaseAt
  <2>3. CASE ~(lease[t][m] >= 0)
    BY <2>1, <2>3 DEF LeaseAt
  <2>4. QED
    BY <2>2, <2>3
<1>4. QED
  BY <1>2, <1>3

\* A renewal that changes the row renews the lease of the handle it is for.
LEMMA RenewKeepsLeases ==
  ASSUME TypeInv, LeaseIsRow, NEW s \in Session, NEW n \in Name,
         row[n].owner = s, row' = Renewed(s, n),
         lease' = [lease EXCEPT ![s][n] = IF n \in Held(s) THEN TTL ELSE -1]
  PROVE  LeaseIsRow'
<1> SUFFICES ASSUME NEW t \in Session, NEW m \in Name
             PROVE  LeaseAt(t, m)'
  BY DEF LeaseIsRow, LeaseAt
<1>1. LeaseAt(t, m)
  BY DEF LeaseIsRow, LeaseAt
<1>2. row' = [row EXCEPT ![n] = Leased(s)]
  BY DEF Renewed
<1>3. CASE m # n
  BY <1>1, <1>2, <1>3, LeaseKept DEF TypeInv, TypeOK
<1>4. CASE m = n /\ t = s
  <2>1. lease'[t][m] = TTL \/ lease'[t][m] = -1
    BY <1>4 DEF TypeInv, TypeOK
  <2>2. row'[m] = [owner |-> s, left |-> TTL]
    BY <1>2, <1>4 DEF TypeInv, TypeOK, Leased
  <2>3. QED
    BY <1>4, <2>1, <2>2 DEF LeaseAt
<1>5. CASE m = n /\ t # s
  <2>1. ~(lease[t][m] >= 0)
    BY <1>1, <1>5 DEF LeaseAt
  <2>2. lease'[t][m] = lease[t][m]
    BY <1>5 DEF TypeInv, TypeOK
  <2>3. QED
    BY <2>1, <2>2 DEF LeaseAt
<1>6. QED
  BY <1>3, <1>4, <1>5

\* No statement writes the row of a lease that has not run out.
LEMMA LeaseIsRowStep == TypeInv /\ LeaseIsRow /\ [Next]_vars => LeaseIsRow'
<1> SUFFICES ASSUME TypeInv, LeaseIsRow, [Next]_vars
             PROVE  LeaseIsRow'
  OBVIOUS
<1>1. ASSUME row' = row, lease' = lease
      PROVE  LeaseIsRow'
  BY <1>1 DEF LeaseIsRow
<1>2. ASSUME NEW s \in Session, Acquiring(s), Matches(s), Push(s)
      PROVE  LeaseIsRow'
  <2> SUFFICES ASSUME NEW t \in Session, NEW m \in Name
               PROVE  LeaseAt(t, m)'
    BY DEF LeaseIsRow, LeaseAt
  <2>1. LeaseAt(t, m)
    BY DEF LeaseIsRow, LeaseAt
  <2>2. Target(s) \in Name
    BY <1>2, TargetType
  <2>3. /\ row' = [row EXCEPT ![Target(s)] = Leased(s)]
        /\ lease' = [lease EXCEPT ![s][Target(s)] = TTL]
    BY <1>2 DEF Push, Effect
  <2>4. CASE t = s /\ m = Target(s)
    BY <2>2, <2>3, <2>4 DEF LeaseAt, Leased, TypeInv, TypeOK
  <2>5. CASE t = s /\ m # Target(s)
    BY <2>1, <2>2, <2>3, <2>5, LeaseKept DEF TypeInv, TypeOK
  <2>6. CASE t # s
    <3>1. lease'[t][m] = lease[t][m]
      BY <2>3, <2>6 DEF TypeInv, TypeOK
    <3>2. CASE lease[t][m] >= 0
      BY <1>2, <2>1, <2>6, <3>1, <3>2, EffectSpares DEF LeaseAt, Push
    <3>3. CASE ~(lease[t][m] >= 0)
      BY <3>1, <3>3 DEF LeaseAt
    <3>4. QED
      BY <3>2, <3>3
  <2>7. QED
    BY <2>4, <2>5, <2>6
<1>3. ASSUME NEW s \in Session, Refuse(s)
      PROVE  LeaseIsRow'
  <2>1. CASE got[s] = 0
    BY <1>3, <2>1, EndKeepsLeases DEF Refuse
  <2>2. CASE got[s] # 0
    BY <1>1, <1>3, <2>2 DEF Refuse
  <2>3. QED
    BY <2>1, <2>2
<1>4. ASSUME NEW s \in Session, Release(s)
      PROVE  LeaseIsRow'
  <2>1. CASE got[s] = 1
    BY <1>4, <2>1, EndKeepsLeases DEF Release
  <2>2. CASE got[s] # 1
    <3> SUFFICES ASSUME NEW t \in Session, NEW m \in Name
                 PROVE  LeaseAt(t, m)'
      BY DEF LeaseIsRow, LeaseAt
    <3>1. LeaseAt(t, m)
      BY DEF LeaseIsRow, LeaseAt
    <3>2. Target(s) \in Name /\ Releasing(s)
      BY <1>4, TargetType DEF Release
    <3>3. /\ row' = Effect(s)
          /\ lease' = [lease EXCEPT ![s][Target(s)] = -1]
      BY <1>4, <2>2 DEF Release
    <3>4. CASE m # Target(s)
      <4>1. row'[m] = row[m]
        BY <3>2, <3>3, <3>4 DEF Effect, TypeInv, TypeOK
      <4>2. lease'[t][m] = lease[t][m]
        BY <3>2, <3>3, <3>4 DEF TypeInv, TypeOK
      <4>3. QED
        BY <3>1, <4>1, <4>2, LeaseKept
    <3>5. CASE m = Target(s) /\ t = s
      <4>1. lease'[t][m] = -1
        BY <3>2, <3>3, <3>5 DEF TypeInv, TypeOK
      <4>2. QED
        BY <4>1 DEF LeaseAt
    <3>6. CASE t # s
      <4>1. lease'[t][m] = lease[t][m]
        BY <3>3, <3>6 DEF TypeInv, TypeOK
      <4>2. CASE lease[t][m] >= 0
        BY <3>1, <3>2, <3>3, <3>6, <4>1, <4>2, EffectSpares DEF LeaseAt
      <4>3. CASE ~(lease[t][m] >= 0)
        BY <4>1, <4>3 DEF LeaseAt
      <4>4. QED
        BY <4>2, <4>3
    <3>7. QED
      BY <3>4, <3>5, <3>6
  <2>3. QED
    BY <2>1, <2>2
<1>5. ASSUME NEW s \in Session, StatementFails(s)
      PROVE  LeaseIsRow'
  BY <1>5, EndKeepsLeases DEF StatementFails
<1>6. ASSUME NEW s \in Session, Crash(s)
      PROVE  LeaseIsRow'
  <2>1. pc[s] = "running" \/ Acquiring(s) \/ Releasing(s)
    BY <1>6 DEF Crash, TypeInv, TypeOK, PCs, Acquiring, Releasing
  <2>2. QED
    BY <1>6, <2>1, EndKeepsLeases DEF Crash
<1>7. ASSUME NEW s \in Session, NEW n \in Name, Renew(s, n)
      PROVE  LeaseIsRow'
  <2>1. CASE row[n].owner = s
    BY <1>7, <2>1, RenewKeepsLeases DEF Renew
  <2>2. CASE row[n].owner # s
    BY <1>1, <1>7, <2>2 DEF Renew, Renewed
  <2>3. QED
    BY <2>1, <2>2
<1>8. ASSUME NEW s \in Session, NEW n \in Name, RenewFails(s, n)
      PROVE  LeaseIsRow'
  BY <1>1, <1>8, RenewKeepsLeases DEF RenewFails
<1>9. ASSUME Tick
      PROVE  LeaseIsRow'
  <2> SUFFICES ASSUME NEW t \in Session, NEW m \in Name
               PROVE  LeaseAt(t, m)'
    BY DEF LeaseIsRow, LeaseAt
  <2>1. LeaseAt(t, m)
    BY DEF LeaseIsRow, LeaseAt
  <2>2. /\ row'[m] = [owner |-> row[m].owner, left |-> LeaseLess(row[m].left)]
        /\ lease'[t][m] = LeaseLess(lease[t][m])
    BY <1>9 DEF Tick
  <2>3. lease[t][m] \in Int
    BY TimeAssumption DEF TypeInv, TypeOK, Left
  <2>4. lease'[t][m] >= 0 => lease[t][m] >= 0
    BY <2>2, <2>3 DEF LeaseLess
  <2>5. QED
    BY <2>1, <2>2, <2>4 DEF LeaseAt
<1>10. QED
  BY <1>1, <1>2, <1>3, <1>4, <1>5, <1>6, <1>7, <1>8, <1>9
  DEF Next, Foreground, InsertRow, TakeOver, RowExists, Start, FinishCallback,
      FireTimer, Acquiring, vars

\* A lease that has not run out is the row of the table, in every behaviour.
THEOREM LeaseIsRowAlways == Spec => []LeaseIsRow
<1>1. Init => LeaseIsRow
  BY DEF Init, LeaseIsRow
<1>2. QED
  BY <1>1, LeaseIsRowStep, TypeInit, TypeStep, PTL DEF Spec

\* Two callbacks under the same lock name: the lease of one of them has run
\* out, whatever crashes, fails or comes late.
THEOREM LeaseMutexAlways == Spec => []LeaseMutex
<1>1. TypeInv /\ LeaseIsRow => LeaseMutex
  <2> SUFFICES ASSUME TypeInv, LeaseIsRow,
                      NEW s \in Session, NEW t \in Session, s # t,
                      NEW n \in Names(s) \cap Names(t)
               PROVE  lease[s][n] < 0 \/ lease[t][n] < 0
    BY DEF LeaseMutex
  <2>1. n \in Name
    BY RequestFacts DEF Names
  <2>2. lease[s][n] \in Int /\ lease[t][n] \in Int
    BY <2>1, TimeAssumption DEF TypeInv, TypeOK, Left
  <2>3. ~(lease[s][n] >= 0 /\ lease[t][n] >= 0)
    <3>1. ASSUME lease[s][n] >= 0
          PROVE  row[n].owner = s
      <4>1. row[n] = [owner |-> s, left |-> lease[s][n]]
        BY <2>1, <3>1 DEF LeaseIsRow
      <4>2. QED
        BY <4>1
    <3>2. ASSUME lease[t][n] >= 0
          PROVE  row[n].owner = t
      <4>1. row[n] = [owner |-> t, left |-> lease[t][n]]
        BY <2>1, <3>2 DEF LeaseIsRow
      <4>2. QED
        BY <4>1
    <3>3. QED
      BY <3>1, <3>2
  <2>4. QED
    BY <2>2, <2>3
<1>2. QED
  BY <1>1, LeaseIsRowAlways, TypeInit, TypeStep, PTL DEF Spec

-----------------------------------------------------------------------------
(* A refused invocation leaves nothing behind. *)

\* A session whose timer was never set, on its way in or refused.
Timerless(s) ==
  \/ pc[s] \in {"idle", "insert", "update", "rollback"}
  \/ pc[s] = "ended" /\ result[s] = "refused"

\* Such a session has no renewal outstanding and leases only names it has
\* handles for; one that releases after its callback was not refused.
TimerlessAt(s) ==
  /\ Timerless(s) => /\ cur[s] = {} /\ old[s] = {}
                     /\ \A n \in Name :
                          row[n].owner = s /\ row[n].left > 0 => n \in Held(s)
  /\ pc[s] = "release" => result[s] # "refused"

TimerlessInv == \A s \in Session : TimerlessAt(s)

\* A session that takes no step keeps its part of the invariant when every
\* row that is its own was its own before, with at least as much time left.
LEMMA TimerlessKept ==
  ASSUME NEW t \in Session, TimerlessAt(t),
         pc'[t] = pc[t], result'[t] = result[t], got'[t] = got[t],
         cur'[t] = cur[t], old'[t] = old[t],
         \A n \in Name : row'[n].owner = t /\ row'[n].left > 0 =>
                           row[n].owner = t /\ row[n].left > 0
  PROVE  TimerlessAt(t)'
BY DEF TimerlessAt, Timerless, Held

\* The statement of s gives no row to another session.
LEMMA EffectOwner ==
  ASSUME TypeInv, NEW s \in Session, NEW t \in Session, t # s,
         Acquiring(s) \/ Releasing(s), NEW n \in Name, Effect(s)[n].owner = t
  PROVE  Effect(s)[n] = row[n]
BY TargetType DEF Effect, Leased, TypeInv, TypeOK

\* Nor does a renewal.
LEMMA RenewedOwner ==
  ASSUME TypeInv, NEW s \in Session, NEW t \in Session, t # s,
         NEW m \in Name, NEW n \in Name, Renewed(s, m)[n].owner = t
  PROVE  Renewed(s, m)[n] = row[n]
BY DEF Renewed, Leased, TypeInv, TypeOK

\* A session without a timer keeps its rows to its handles.
LEMMA TimerlessStep == TypeInv /\ TimerlessInv /\ [Next]_vars => TimerlessInv'
<1> SUFFICES ASSUME TypeInv, TimerlessInv, [Next]_vars, NEW t \in Session
             PROVE  TimerlessAt(t)'
  BY DEF TimerlessInv
<1>0. TimerlessAt(t)
  BY DEF TimerlessInv
<1>1. ASSUME NEW s \in Session, s # t,
             Foreground(s) \/ Start(s) \/ StatementFails(s) \/ Crash(s) \/ FireTimer(s)
      PROVE  TimerlessAt(t)'
  <2>1. row' = row \/ (row' = Effect(s) /\ (Acquiring(s) \/ Releasing(s)))
    BY <1>1
    DEF Foreground, InsertRow, RowExists, TakeOver, Push, Refuse, FinishCallback,
        Release, Start, StatementFails, Crash, FireTimer, Acquiring, Releasing,
        TypeInv, TypeOK, PCs
  <2>2. \A n \in Name : row'[n].owner = t /\ row'[n].left > 0 =>
                          row[n].owner = t /\ row[n].left > 0
    BY <1>1, <2>1, EffectOwner
  <2>3. /\ pc'[t] = pc[t] /\ result'[t] = result[t] /\ got'[t] = got[t]
        /\ cur'[t] = cur[t] /\ old'[t] = old[t]
    BY <1>1
    DEF Foreground, InsertRow, RowExists, TakeOver, Push, Refuse, FinishCallback,
        Release, Start, StatementFails, Crash, FireTimer, End, TypeInv, TypeOK
  <2>4. QED
    BY <1>0, <2>2, <2>3, TimerlessKept
<1>2. ASSUME NEW s \in Session, NEW m \in Name, s # t,
             Renew(s, m) \/ RenewFails(s, m)
      PROVE  TimerlessAt(t)'
  <2>1. row' = row \/ row' = Renewed(s, m)
    BY <1>2 DEF Renew, RenewFails
  <2>2. \A n \in Name : row'[n].owner = t /\ row'[n].left > 0 =>
                          row[n].owner = t /\ row[n].left > 0
    BY <1>2, <2>1, RenewedOwner
  <2>3. /\ pc'[t] = pc[t] /\ result'[t] = result[t] /\ got'[t] = got[t]
        /\ cur'[t] = cur[t] /\ old'[t] = old[t]
    BY <1>2 DEF Renew, RenewFails, Reject, TypeInv, TypeOK
  <2>4. QED
    BY <1>0, <2>2, <2>3, TimerlessKept
<1>3. CASE Tick
  <2>1. \A n \in Name : row'[n].owner = t /\ row'[n].left > 0 =>
                          row[n].owner = t /\ row[n].left > 0
    <3>1. \A n \in Name : row[n].left \in Int
      BY TimeAssumption DEF TypeInv, TypeOK, Row, Left
    <3>2. QED
      BY <1>3, <3>1 DEF Tick, LeaseLess
  <2>2. QED
    BY <1>0, <1>3, <2>1, TimerlessKept DEF Tick
<1>4. CASE UNCHANGED vars
  BY <1>0, <1>4, TimerlessKept DEF vars
<1>5. CASE Start(t) \/ RowExists(t)
  BY <1>0, <1>5 DEF Start, RowExists, TimerlessAt, Timerless, Held, TypeInv, TypeOK
<1>6. CASE Acquiring(t) /\ Push(t)
  <2>1. CASE got[t] + 1 = Len(Request[t])
    <3>1. pc'[t] = "running"
      BY <1>6, <2>1 DEF Push, TypeInv, TypeOK
    <3>2. QED
      BY <3>1 DEF TimerlessAt, Timerless
  <2>2. CASE got[t] + 1 # Len(Request[t])
    <3>1. /\ pc'[t] = "insert" /\ got'[t] = got[t] + 1
          /\ cur'[t] = cur[t] /\ old'[t] = old[t]
          /\ row' = Effect(t) /\ Target(t) = Request[t][got[t] + 1]
      BY <1>6, <2>2 DEF Push, Target, TypeInv, TypeOK
    <3>2. got[t] \in Nat
      BY DEF TypeInv, TypeOK
    <3>3. ASSUME NEW n \in Name, row'[n].owner = t, row'[n].left > 0
          PROVE  n \in Held(t)'
      <4>1. CASE n = Target(t)
        BY <3>1, <3>2, <4>1 DEF Held
      <4>2. CASE n # Target(t)
        <5>1. row'[n] = row[n]
          BY <1>6, <3>1, <4>2, TargetType DEF Effect, TypeInv, TypeOK
        <5>2. n \in Held(t)
          BY <1>0, <1>6, <3>3, <5>1 DEF TimerlessAt, Timerless, Acquiring
        <5>3. QED
          BY <3>1, <3>2, <5>2 DEF Held
      <4>3. QED
        BY <4>1, <4>2
    <3>4. QED
      BY <1>0, <1>6, <3>1, <3>3 DEF TimerlessAt, Timerless, Acquiring
  <2>3. QED
    BY <2>1, <2>2
<1>7. CASE Refuse(t)
  <2>1. CASE got[t] = 0
    BY <1>0, <1>7, <2>1 DEF Refuse, End, TimerlessAt, Timerless, Held, TypeInv, TypeOK
  <2>2. CASE got[t] # 0
    BY <1>0, <1>7, <2>2 DEF Refuse, TimerlessAt, Timerless, Held, TypeInv, TypeOK
  <2>3. QED
    BY <2>1, <2>2
<1>8. CASE FinishCallback(t)
  <2>1. pc'[t] = "release" /\ result'[t] # "refused"
    BY <1>8 DEF FinishCallback, TypeInv, TypeOK
  <2>2. QED
    BY <2>1 DEF TimerlessAt, Timerless
<1>9. CASE Release(t) /\ pc[t] = "release"
  <2>1. result'[t] = result[t] /\ pc'[t] \in {"release", "ended"}
    BY <1>9 DEF Release, End, TypeInv, TypeOK
  <2>2. QED
    BY <1>0, <1>9, <2>1 DEF TimerlessAt, Timerless
<1>10. CASE Release(t) /\ pc[t] = "rollback"
  <2>1. /\ pc'[t] \in {"rollback", "ended"}
        /\ cur'[t] = cur[t] /\ old'[t] = old[t]
        /\ got'[t] = got[t] - 1 /\ got[t] >= 1 /\ got[t] \in Nat
        /\ row' = Effect(t) /\ Target(t) = Request[t][got[t]]
    BY <1>10 DEF Release, End, Target, Acquiring, Releasing, TypeInv, TypeOK, GotInv
  <2>2. ASSUME NEW n \in Name, row'[n].owner = t, row'[n].left > 0
        PROVE  n \in Held(t)'
    <3>1. Target(t) \in Name /\ Releasing(t) /\ ~Acquiring(t)
      BY <1>10, TargetType DEF Releasing, Acquiring
    <3>2. n # Target(t)
      BY <2>1, <2>2, <3>1 DEF Effect, Matches, TypeInv, TypeOK
    <3>3. row'[n] = row[n]
      BY <2>1, <3>1, <3>2 DEF Effect, TypeInv, TypeOK
    <3>4. n \in Held(t)
      BY <1>0, <1>10, <2>2, <3>3 DEF TimerlessAt, Timerless
    <3>5. QED
      BY <2>1, <3>2, <3>4 DEF Held
  <2>3. QED
    BY <1>0, <1>10, <2>1, <2>2 DEF TimerlessAt, Timerless
<1>11. CASE StatementFails(t) \/ Crash(t)
  <2>1. pc'[t] = "ended" /\ result'[t] \in {"dberror", "crashed"}
    BY <1>11 DEF StatementFails, Crash, End, TypeInv, TypeOK
  <2>2. QED
    BY <2>1 DEF TimerlessAt, Timerless
<1>12. CASE FireTimer(t)
  BY <1>0, <1>12 DEF FireTimer, TimerlessAt, Timerless
<1>13. ASSUME NEW m \in Name, Renew(t, m) \/ RenewFails(t, m)
       PROVE  TimerlessAt(t)'
  <2>1. ~Timerless(t)
    BY <1>0, <1>13 DEF Renew, RenewFails, TimerlessAt
  <2>2. pc'[t] = pc[t] /\ result'[t] = result[t]
    BY <1>13 DEF Renew, RenewFails
  <2>3. QED
    BY <1>0, <2>1, <2>2 DEF TimerlessAt, Timerless
<1>14. QED
  <2>1. ASSUME Foreground(t)
        PROVE  TimerlessAt(t)'
    BY <1>5, <1>6, <1>7, <1>8, <1>9, <1>10, <2>1
    DEF Foreground, InsertRow, TakeOver, Acquiring, Release, Releasing
  <2>2. QED
    BY <1>1, <1>2, <1>3, <1>4, <1>5, <1>11, <1>12, <1>13, <2>1 DEF Next

\* A refused invocation holds no lease in force, whatever the interleaving of
\* its roll-back with other sessions and with time.
THEOREM RefusedHoldsNothingAlways == Spec => []RefusedHoldsNothing
<1>1. Init => TimerlessInv
  BY DEF Init, TimerlessInv, TimerlessAt, Timerless
<1>2. TypeInv /\ TimerlessInv => RefusedHoldsNothing
  <2> SUFFICES ASSUME TypeInv, TimerlessInv, NEW s \in Session,
                      pc[s] = "ended", result[s] = "refused",
                      NEW n \in Name, row[n].owner = s
               PROVE  row[n].left <= 0
    BY DEF RefusedHoldsNothing
  <2>1. row[n].left \in Int
    BY TimeAssumption DEF TypeInv, TypeOK, Row, Left
  <2>2. Held(s) = {}
    BY DEF Held, TypeInv, GotInv
  <2>3. QED
    BY <2>1, <2>2 DEF TimerlessInv, TimerlessAt, Timerless
<1>3. QED
  BY <1>1, <1>2, TimerlessStep, TypeInit, TypeStep, PTL DEF Spec

=============================================================================
