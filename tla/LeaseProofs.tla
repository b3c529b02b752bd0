----------------------------- MODULE LeaseProofs -----------------------------
(***************************************************************************)
(* Two proofs about AppLocks on top of AppLocksProofs: the table and the   *)
(* callbacks implement LeaseService, whatever crashes, fails or comes      *)
(* late; and when timers and statements keep to their times and the TTL is *)
(* long enough, no callback ever works without its leases.                 *)
(***************************************************************************)
EXTENDS AppLocksProofs

-----------------------------------------------------------------------------
(* The handles of a session and the names it asks for. *)

\* The first k names of a list are all of them only when k is its length: no
\* list names a lock twice.
LEMMA Prefixes ==
  ASSUME NEW s \in Session, NEW k \in 0..Len(Request[s])
  PROVE  {Request[s][i] : i \in 1..k} = Names(s) <=> k = Len(Request[s])
<1>1. Len(Request[s]) \in Nat /\ Len(Request[s]) >= 1
  BY RequestFacts
<1>2. k = Len(Request[s]) => {Request[s][i] : i \in 1..k} = Names(s)
  BY DEF Names
<1>3. ASSUME k # Len(Request[s])
      PROVE  {Request[s][i] : i \in 1..k} # Names(s)
  <2>1. Request[s][Len(Request[s])] \in Names(s)
    BY <1>1 DEF Names
  <2>2. Request[s][Len(Request[s])] \notin {Request[s][i] : i \in 1..k}
    BY <1>1, <1>3, RequestAssumption
  <2>3. QED
    BY <2>1, <2>2
<1>4. QED
  BY <1>2, <1>3

\* The names a session asks for are lock names, it holds some of them, and a
\* session without handles none.
LEMMA HeldFacts ==
  ASSUME TypeInv, NEW s \in Session
  PROVE  /\ Names(s) \subseteq Name
         /\ Held(s) \subseteq Names(s)
         /\ got[s] = 0 => Held(s) = {}
BY RequestFacts DEF TypeInv, TypeOK, Names, Held

\* The name an acquire statement is about is the next one, which the session
\* does not hold; a release statement is about the last one it holds.
LEMMA TargetFacts ==
  ASSUME TypeInv, NEW s \in Session
  PROVE  /\ Acquiring(s) =>
              /\ Target(s) \in Names(s) \ Held(s)
              /\ {Request[s][i] : i \in 1..(got[s] + 1)} = Held(s) \cup {Target(s)}
         /\ Releasing(s) =>
              /\ Target(s) \in Held(s)
              /\ {Request[s][i] : i \in 1..(got[s] - 1)} = Held(s) \ {Target(s)}
<1>1. /\ got[s] \in Nat /\ got[s] <= Len(Request[s])
      /\ Len(Request[s]) \in Nat
  BY RequestFacts DEF TypeInv, TypeOK
<1>2. ASSUME Acquiring(s)
      PROVE  /\ Target(s) \in Names(s) \ Held(s)
             /\ {Request[s][i] : i \in 1..(got[s] + 1)} = Held(s) \cup {Target(s)}
  <2>1. got[s] + 1 \in 1..Len(Request[s]) /\ Target(s) = Request[s][got[s] + 1]
    BY <1>1, <1>2 DEF TypeInv, GotInv, Target
  <2>2. Target(s) \in Names(s)
    BY <2>1 DEF Names
  <2>3. Target(s) \notin Held(s)
    BY <1>1, <2>1, RequestAssumption DEF Held
  <2>4. 1..(got[s] + 1) = (1..got[s]) \cup {got[s] + 1}
    BY <1>1
  <2>5. QED
    BY <2>1, <2>2, <2>3, <2>4 DEF Held
<1>3. ASSUME Releasing(s)
      PROVE  /\ Target(s) \in Held(s)
             /\ {Request[s][i] : i \in 1..(got[s] - 1)} = Held(s) \ {Target(s)}
  <2>1. got[s] \in 1..Len(Request[s]) /\ Target(s) = Request[s][got[s]]
    BY <1>1, <1>3 DEF TypeInv, GotInv, Target, Acquiring, Releasing
  <2>2. Target(s) \in Held(s)
    BY <1>1, <2>1 DEF Held
  <2>3. 1..got[s] = (1..(got[s] - 1)) \cup {got[s]}
    BY <1>1, <2>1
  <2>4. \A i \in 1..(got[s] - 1) : Request[s][i] # Target(s)
    BY <1>1, <2>1, RequestAssumption
  <2>5. QED
    BY <2>1, <2>2, <2>3, <2>4 DEF Held
<1>4. QED
  BY <1>2, <1>3

-----------------------------------------------------------------------------
(* The refinement of LeaseService. *)

\* A row nobody ever inserted has no lease in force.
FreshInv == \A n \in Name : row[n].owner = NoOwner => row[n].left < 0

\* No step gives a row back to nobody.
LEMMA FreshStep == TypeInv /\ FreshInv /\ [Next]_vars => FreshInv'
<1> SUFFICES ASSUME TypeInv, FreshInv, [Next]_vars, NEW n \in Name,
                    row'[n].owner = NoOwner
             PROVE  row'[n].left < 0
  BY DEF FreshInv
<1>0. row[n].owner = NoOwner => row[n].left < 0
  BY DEF FreshInv
<1>1. CASE row' = row
  BY <1>0, <1>1
<1>2. ASSUME NEW s \in Session, Acquiring(s) \/ Releasing(s), row' = Effect(s)
      PROVE  row'[n].left < 0
  <2>1. Effect(s)[n] = row[n]
    BY <1>2, TargetType, NameAssumption DEF Effect, Leased, TypeInv, TypeOK
  <2>2. QED
    BY <1>0, <1>2, <2>1
<1>3. ASSUME NEW s \in Session, NEW m \in Name, row' = Renewed(s, m)
      PROVE  row'[n].left < 0
  <2>1. Renewed(s, m)[n] = row[n]
    BY <1>3, NameAssumption DEF Renewed, Leased, TypeInv, TypeOK
  <2>2. QED
    BY <1>0, <1>3, <2>1
<1>4. CASE Tick
  <2>1. row'[n].owner = row[n].owner /\ row'[n].left = LeaseLess(row[n].left)
    BY <1>4 DEF Tick
  <2>2. row[n].left \in Int
    BY TimeAssumption DEF TypeInv, TypeOK, Row, Left
  <2>3. QED
    BY <1>0, <2>1, <2>2 DEF LeaseLess
<1>5. \/ row' = row
      \/ \E s \in Session : (Acquiring(s) \/ Releasing(s)) /\ row' = Effect(s)
      \/ \E s \in Session, m \in Name : row' = Renewed(s, m)
      \/ Tick
  <2>1. ASSUME NEW s \in Session, Crash(s)
        PROVE  row' = row \/ ((Acquiring(s) \/ Releasing(s)) /\ row' = Effect(s))
    BY <2>1 DEF Crash, Acquiring, Releasing, TypeInv, TypeOK, PCs
  <2>2. ASSUME NEW s \in Session, StatementFails(s)
        PROVE  row' = row \/ ((Acquiring(s) \/ Releasing(s)) /\ row' = Effect(s))
    BY <2>2 DEF StatementFails
  <2>3. ASSUME NEW s \in Session, Foreground(s)
        PROVE  row' = row \/ ((Acquiring(s) \/ Releasing(s)) /\ row' = Effect(s))
    BY <2>3 DEF Foreground, InsertRow, TakeOver, Push, RowExists, Refuse,
                FinishCallback, Release, Acquiring, Releasing
  <2>4. ASSUME NEW s \in Session, Start(s) \/ FireTimer(s)
        PROVE  row' = row
    BY <2>4 DEF Start, FireTimer
  <2>5. ASSUME NEW s \in Session, NEW m \in Name, Renew(s, m) \/ RenewFails(s, m)
        PROVE  row' = row \/ row' = Renewed(s, m)
    BY <2>5 DEF Renew, RenewFails
  <2>6. QED
    BY <2>1, <2>2, <2>3, <2>4, <2>5 DEF Next, vars
<1>6. QED
  BY <1>1, <1>2, <1>3, <1>4, <1>5

\* A session whose handles and callback a step leaves alone keeps what the
\* service knows of it.
Same(t) == got'[t] = got[t] /\ (pc'[t] = "running" <=> pc[t] = "running")

\* A step that leaves the rows, the handles and the callbacks alone is a
\* stutter of the service.
LEMMA Stutter ==
  ASSUME TypeInv, row' = row, \A t \in Session : Same(t)
  PROVE  UNCHANGED Service!vars
<1>1. \A t \in Session : Held(t)' = Held(t)
  BY DEF Same, Held
<1>2. {t \in Session : pc'[t] = "running"} = {t \in Session : pc[t] = "running"}
  BY DEF Same
<1>3. QED
  BY <1>1, <1>2 DEF Service!vars

\* What a statement that finds its row does to the table, name by name.
LEMMA EffectIs ==
  ASSUME TypeInv, NEW s \in Session, Acquiring(s) \/ Releasing(s), Matches(s)
  PROVE  /\ [n \in Name |-> Effect(s)[n].owner] =
              [[n \in Name |-> row[n].owner] EXCEPT ![Target(s)] = s]
         /\ Acquiring(s) => [n \in Name |-> Effect(s)[n].left > 0] =
              [[n \in Name |-> row[n].left > 0] EXCEPT ![Target(s)] = TRUE]
         /\ Releasing(s) => [n \in Name |-> Effect(s)[n].left > 0] =
              [[n \in Name |-> row[n].left > 0] EXCEPT ![Target(s)] = FALSE]
<1>1. row \in [Name -> Row] /\ Target(s) \in Name
  BY TargetType DEF TypeInv, TypeOK
<1>2. \A n \in Name : n # Target(s) => Effect(s)[n] = row[n]
  BY <1>1 DEF Effect
<1>3. /\ Effect(s)[Target(s)].owner = s
      /\ Effect(s)[Target(s)].left > 0 <=> Acquiring(s)
  <2>1. CASE Acquiring(s)
    <3>1. Effect(s)[Target(s)] = [owner |-> s, left |-> TTL]
      BY <1>1, <2>1 DEF Effect, Leased
    <3>2. TTL > 0
      BY TimeAssumption
    <3>3. Effect(s)[Target(s)].owner = s /\ Effect(s)[Target(s)].left > 0
      BY <3>1, <3>2
    <3>4. QED
      BY <2>1, <3>3, Zenon
  <2>2. CASE ~Acquiring(s)
    <3>1. Effect(s)[Target(s)] = [owner |-> s, left |-> 0]
      BY <1>1, <2>2 DEF Effect
    <3>2. Effect(s)[Target(s)].owner = s /\ ~(Effect(s)[Target(s)].left > 0)
      BY <3>1
    <3>3. QED
      BY <2>2, <3>2, Zenon
  <2>3. QED
    BY <2>1, <2>2
<1>4. [n \in Name |-> Effect(s)[n].owner] =
        [[n \in Name |-> row[n].owner] EXCEPT ![Target(s)] = s]
  BY <1>1, <1>2, <1>3
<1>5. Releasing(s) => ~Acquiring(s)
  BY DEF Acquiring, Releasing
<1>6. Acquiring(s) => [n \in Name |-> Effect(s)[n].left > 0] =
        [[n \in Name |-> row[n].left > 0] EXCEPT ![Target(s)] = TRUE]
  BY <1>1, <1>2, <1>3, Zenon
<1>7. Releasing(s) => [n \in Name |-> Effect(s)[n].left > 0] =
        [[n \in Name |-> row[n].left > 0] EXCEPT ![Target(s)] = FALSE]
  <2>1. ASSUME Releasing(s), NEW n \in Name
        PROVE  (Effect(s)[n].left > 0) = IF n = Target(s) THEN FALSE ELSE row[n].left > 0
    <3>1. CASE n = Target(s)
      <4>1. Effect(s)[n] = [owner |-> s, left |-> 0]
        BY <1>1, <1>5, <2>1, <3>1 DEF Effect
      <4>2. Effect(s)[n].left = 0
        BY <4>1
      <4>3. (Effect(s)[n].left > 0) = FALSE
        BY <4>2, SMT
      <4>4. QED
        BY <3>1, <4>3, Zenon
    <3>2. CASE n # Target(s)
      BY <1>2, <3>2
    <3>3. QED
      BY <3>1, <3>2
  <2>2. QED
    BY <1>1, <2>1, Zenon
<1>8. QED
  BY <1>4, <1>6, <1>7

\* An acquire statement finds its row only when no lease on it is in force.
LEMMA AcquiresLapsed ==
  ASSUME TypeInv, FreshInv, NEW s \in Session, Acquiring(s), Matches(s)
  PROVE  ~(row[Target(s)].left > 0)
<1>1. row[Target(s)].left < 0 /\ row[Target(s)].left \in Int
  BY TargetType, TimeAssumption
  DEF FreshInv, Matches, Acquiring, Releasing, TypeInv, TypeOK, Row, Left
<1>2. QED
  BY <1>1

\* Pushing a handle grants its name.
LEMMA PushGrants ==
  ASSUME TypeInv, FreshInv, NEW s \in Session, Acquiring(s), Matches(s), Push(s),
         NEW n \in Name, n = Target(s)
  PROVE  Service!Grant(s, n)
<1>1. n \in Names(s) \ Held(s) /\ n \in Name
  BY TargetFacts, TargetType
<1>2. pc[s] # "running" /\ s \notin {t \in Session : pc[t] = "running"}
  BY DEF Acquiring
<1>3. /\ got'[s] = got[s] + 1 /\ \A t \in Session \ {s} : got'[t] = got[t]
      /\ pc'[s] = IF got[s] + 1 = Len(Request[s]) THEN "running" ELSE "insert"
      /\ \A t \in Session \ {s} : pc'[t] = pc[t]
  BY DEF Push, TypeInv, TypeOK
<1>4. Held(s)' = Held(s) \cup {n} /\ \A t \in Session \ {s} : Held(t)' = Held(t)
  BY <1>3, TargetFacts DEF Held
<1>5. got[s] + 1 = Len(Request[s]) <=> Held(s) \cup {n} = Names(s)
  <2>1. got[s] + 1 \in 0..Len(Request[s])
    BY RequestFacts DEF TypeInv, TypeOK, GotInv
  <2>2. {Request[s][i] : i \in 1..(got[s] + 1)} = Held(s) \cup {n}
    BY TargetFacts
  <2>3. QED
    BY <2>1, <2>2, Prefixes
<1>6. row' = Effect(s)
  BY DEF Push
<1>7. /\ [m \in Name |-> row'[m].owner] =
           [[m \in Name |-> row[m].owner] EXCEPT ![n] = s]
      /\ [m \in Name |-> row'[m].left > 0] =
           [[m \in Name |-> row[m].left > 0] EXCEPT ![n] = TRUE]
  BY ZenonT(60), <1>6, EffectIs
<1>8. ~[m \in Name |-> row[m].left > 0][n]
  BY <1>1, AcquiresLapsed, Zenon
<1>9. [t \in Session |-> Held(t)]' =
        [[t \in Session |-> Held(t)] EXCEPT ![s] = @ \cup {n}]
  BY <1>4
<1>10. {t \in Session : pc[t] = "running"}' =
         IF [t \in Session |-> Held(t)][s] \cup {n}
              = [t \in Session |-> Names(t)][s]
         THEN {t \in Session : pc[t] = "running"} \cup {s}
         ELSE {t \in Session : pc[t] = "running"}
  BY <1>2, <1>3, <1>5
<1>11. QED
  BY <1>1, <1>2, <1>7, <1>8, <1>9, <1>10, Zenon DEF Service!Grant

\* Letting a handle go gives its name back.
LEMMA ReleaseGivesBack ==
  ASSUME TypeInv, NEW s \in Session, Release(s), NEW n \in Name, n = Target(s)
  PROVE  Service!GiveBack(s, n)
<1>0. Releasing(s) /\ ~Acquiring(s) /\ row' = Effect(s)
  BY DEF Release, Acquiring, Releasing
<1>1. n \in Held(s) /\ n \in Name /\ row \in [Name -> Row]
  BY <1>0, TargetFacts, TargetType DEF TypeInv, TypeOK
<1>2. s \notin {t \in Session : pc[t] = "running"}
  BY <1>0 DEF Releasing
<1>3. /\ got'[s] = got[s] - 1
      /\ \A t \in Session \ {s} : got'[t] = got[t]
      /\ \A t \in Session : pc'[t] = "running" <=> pc[t] = "running"
  BY <1>0 DEF Release, End, Releasing, TypeInv, TypeOK
<1>4. Held(s)' = Held(s) \ {n} /\ \A t \in Session \ {s} : Held(t)' = Held(t)
  BY <1>0, <1>3, TargetFacts DEF Held
<1>5. [t \in Session |-> Held(t)]' =
        [[t \in Session |-> Held(t)] EXCEPT ![s] = @ \ {n}]
  BY <1>4
<1>6. {t \in Session : pc[t] = "running"}' = {t \in Session : pc[t] = "running"}
  BY <1>3
<1>7. [m \in Name |-> row'[m].owner] = [m \in Name |-> row[m].owner]
  <2>1. \A m \in Name : row'[m].owner = row[m].owner
    BY <1>0, <1>1 DEF Effect, Matches, Releasing, Acquiring
  <2>2. QED
    BY <2>1
<1>8. [m \in Name |-> row'[m].left > 0] =
        [[m \in Name |-> row[m].left > 0]
           EXCEPT ![n] = @ /\ row[n].owner # s]
  <2>1. row[n].left \in Int
    BY <1>1, TimeAssumption DEF Row, Left
  <2>2. CASE Matches(s)
    <3>1. row[n].owner = s
      BY <1>0, <2>2 DEF Matches, Releasing
    <3>2. (row[n].left > 0 /\ row[n].owner # s) = FALSE
      BY <3>1
    <3>3. [m \in Name |-> row'[m].left > 0] =
            [[m \in Name |-> row[m].left > 0] EXCEPT ![n] = FALSE]
      <4>1. [m \in Name |-> row'[m].left > 0] =
              [[m \in Name |-> row[m].left > 0] EXCEPT ![Target(s)] = FALSE]
        BY ZenonT(60), <1>0, <2>2, EffectIs
      <4>2. QED
        BY <4>1
    <3>4. QED
      BY <1>1, <3>2, <3>3, Zenon
  <2>3. CASE ~Matches(s)
    <3>1. row[n].owner # s
      BY <1>0, <2>3 DEF Matches
    <3>2. (row[n].left > 0 /\ row[n].owner # s) = (row[n].left > 0)
      BY <2>1, <3>1
    <3>3. row' = row
      BY <1>0, <2>3 DEF Effect
    <3>4. QED
      BY <1>1, <3>2, <3>3, Zenon
  <2>4. QED
    BY <2>2, <2>3
<1>9. n \in [t \in Session |-> Held(t)][s]
  BY <1>1
<1>10. [m \in Name |-> row[m].owner][n] = row[n].owner
  BY <1>1
<1>11. QED
  BY <1>2, <1>5, <1>6, <1>7, <1>8, <1>9, <1>10, Zenon DEF Service!GiveBack

\* A session that ends before it has let go abandons its names; the statement
\* that was outstanding may have taken effect.
LEMMA EndAbandons ==
  ASSUME TypeInv, FreshInv, NEW s \in Session, NEW r, End(s, r),
         row' = row \/ (row' = Effect(s) /\ (Acquiring(s) \/ Releasing(s)))
  PROVE  Service!Abandon(s)
<1>1. /\ got'[s] = 0 /\ \A t \in Session \ {s} : got'[t] = got[t]
      /\ \A t \in Session : pc'[t] = "running" <=> pc[t] = "running" /\ t # s
  BY DEF End, TypeInv, TypeOK
<1>2. [t \in Session |-> Held(t)]' = [[t \in Session |-> Held(t)] EXCEPT ![s] = {}]
  <2>1. Held(s)' = {} /\ \A t \in Session \ {s} : Held(t)' = Held(t)
    BY <1>1 DEF Held
  <2>2. QED
    BY <2>1
<1>3. {t \in Session : pc[t] = "running"}' = {t \in Session : pc[t] = "running"} \ {s}
  BY <1>1
<1>4. CASE row' = row
  <2>1. /\ [n \in Name |-> row[n].owner]' = [n \in Name |-> row[n].owner]
        /\ [n \in Name |-> row[n].left > 0]' = [n \in Name |-> row[n].left > 0]
    BY <1>4
  <2>2. QED
    BY <1>2, <1>3, <2>1, Zenon DEF Service!Abandon
<1>5. CASE row' = Effect(s) /\ row' # row /\ Acquiring(s)
  <2>1. Matches(s)
    BY <1>5 DEF Effect
  <2>2. Target(s) \in Names(s) /\ Target(s) \in Name
    BY <1>5, TargetFacts, TargetType
  <2>3. Target(s) \in [t \in Session |-> Names(t)][s]
    BY <2>2
  <2>4. ~[n \in Name |-> row[n].left > 0][Target(s)]
    BY <1>5, <2>1, <2>2, AcquiresLapsed, Zenon
  <2>5. /\ [n \in Name |-> row'[n].owner] =
             [[n \in Name |-> row[n].owner] EXCEPT ![Target(s)] = s]
        /\ [n \in Name |-> row'[n].left > 0] =
             [[n \in Name |-> row[n].left > 0] EXCEPT ![Target(s)] = TRUE]
    BY ZenonT(60), <1>5, <2>1, EffectIs
  <2>6. QED
    BY <1>2, <1>3, <2>3, <2>4, <2>5, Zenon DEF Service!Abandon
<1>6. CASE row' = Effect(s) /\ row' # row /\ Releasing(s)
  <2>0. ~Acquiring(s)
    BY <1>6 DEF Acquiring, Releasing
  <2>1. Matches(s)
    BY <1>6 DEF Effect
  <2>2. Target(s) \in Held(s) /\ Target(s) \in Name /\ row[Target(s)].owner = s
    BY <1>6, <2>0, <2>1, TargetFacts, TargetType DEF Matches, Acquiring, Releasing
  <2>3. Target(s) \in [t \in Session |-> Held(t)][s]
    BY <2>2
  <2>4. [n \in Name |-> row[n].owner][Target(s)] = s
    BY <2>2
  <2>5. [n \in Name |-> row'[n].left > 0] =
          [[n \in Name |-> row[n].left > 0] EXCEPT ![Target(s)] = FALSE]
    BY ZenonT(60), <1>6, <2>1, EffectIs
  <2>6. [n \in Name |-> row'[n].owner] = [n \in Name |-> row[n].owner]
    <3>1. \A n \in Name : row'[n].owner = row[n].owner
      BY <1>6, <2>0, <2>2 DEF Effect, TypeInv, TypeOK
    <3>2. QED
      BY <3>1
  <2>7. QED
    BY <1>2, <1>3, <2>3, <2>4, <2>5, <2>6, Zenon DEF Service!Abandon
<1>7. QED
  BY <1>4, <1>5, <1>6

\* The callback settles: the session stops working under its names.
LEMMA FinishLeaves ==
  ASSUME TypeInv, NEW s \in Session, FinishCallback(s)
  PROVE  Service!Leave(s)
<1>1. /\ row' = row /\ got' = got /\ pc[s] = "running"
      /\ \A t \in Session : pc'[t] = "running" <=> pc[t] = "running" /\ t # s
  BY DEF FinishCallback, TypeInv, TypeOK
<1>2. \A t \in Session : Held(t)' = Held(t)
  BY <1>1 DEF Held
<1>3. s \in {t \in Session : pc[t] = "running"}
  BY <1>1
<1>4. {t \in Session : pc[t] = "running"}' = {t \in Session : pc[t] = "running"} \ {s}
  BY <1>1
<1>5. [t \in Session |-> Held(t)]' = [t \in Session |-> Held(t)]
  BY <1>2
<1>6. /\ [n \in Name |-> row[n].owner]' = [n \in Name |-> row[n].owner]
      /\ [n \in Name |-> row[n].left > 0]' = [n \in Name |-> row[n].left > 0]
  BY <1>1
<1>7. QED
  BY <1>3, <1>4, <1>5, <1>6, Zenon DEF Service!Leave

\* A renewal that finds its row revives the name, however late it comes.
LEMMA RenewRevives ==
  ASSUME TypeInv, NEW s \in Session, NEW n \in Name, row[n].owner = s,
         row' = Renewed(s, n), got' = got, pc' = pc
  PROVE  Service!Revive(n)
<1>1. row \in [Name -> Row] /\ row' = [row EXCEPT ![n] = Leased(s)]
  BY DEF Renewed, TypeInv, TypeOK
<1>2. /\ \A m \in Name : row'[m].owner = row[m].owner
      /\ \A m \in Name : m # n => row'[m] = row[m]
      /\ row'[n].left = TTL
  BY <1>1 DEF Leased
<1>3. [m \in Name |-> row[m].owner]' = [m \in Name |-> row[m].owner]
  BY <1>2
<1>4. row'[n].left > 0
  BY <1>2, TimeAssumption
<1>5. [m \in Name |-> row[m].left > 0]' =
        [[m \in Name |-> row[m].left > 0] EXCEPT ![n] = TRUE]
  BY <1>2, <1>4, Zenon
<1>6. [m \in Name |-> row[m].owner][n] # NoOwner
  BY NameAssumption
<1>7. \A t \in Session : Held(t)' = Held(t)
  BY DEF Held
<1>8. [t \in Session |-> Held(t)]' = [t \in Session |-> Held(t)]
  BY <1>7
<1>9. {t \in Session : pc[t] = "running"}' = {t \in Session : pc[t] = "running"}
  OBVIOUS
<1>10. QED
  BY <1>3, <1>5, <1>6, <1>8, <1>9, Zenon DEF Service!Revive

\* A tick lets the leases lapse that were in their last one.
LEMMA TickLapses ==
  ASSUME TypeInv, Tick
  PROVE  Service!Lapse
<1> DEFINE gone == {n \in Name : ~(LeaseLess(row[n].left) > 0)}
<1>1. row \in [Name -> Row] /\ \A n \in Name : row[n].left \in Int
  BY TimeAssumption DEF TypeInv, TypeOK, Row, Left
<1>2. \A n \in Name : row'[n].owner = row[n].owner /\ row'[n].left = LeaseLess(row[n].left)
  BY DEF Tick
<1>3. ASSUME NEW n \in Name
      PROVE  (row'[n].left > 0) = ([m \in Name |-> row[m].left > 0][n] /\ n \notin gone)
  <2>1. LeaseLess(row[n].left) \in Int
    BY <1>1 DEF LeaseLess
  <2>2. LeaseLess(row[n].left) > 0 => row[n].left > 0
    BY <1>1 DEF LeaseLess
  <2>3. n \in gone <=> ~(LeaseLess(row[n].left) > 0)
    OBVIOUS
  <2>4. [m \in Name |-> row[m].left > 0][n] = (row[n].left > 0)
    BY Zenon
  <2>5. (LeaseLess(row[n].left) > 0) = (row[n].left > 0 /\ n \notin gone)
    BY <1>1, <2>1, <2>2, <2>3
  <2>6. QED
    BY <1>2, <2>4, <2>5, Zenon
<1>4. [n \in Name |-> row[n].left > 0]' =
        [n \in Name |-> [m \in Name |-> row[m].left > 0][n] /\ n \notin gone]
  BY <1>3, Zenon
<1>5. gone \in SUBSET Name
  OBVIOUS
<1>6. [n \in Name |-> row[n].owner]' = [n \in Name |-> row[n].owner]
  BY <1>2
<1>7. \A t \in Session : Held(t)' = Held(t)
  BY DEF Tick, Held
<1>8. [t \in Session |-> Held(t)]' = [t \in Session |-> Held(t)]
  BY <1>7
<1>9. {t \in Session : pc[t] = "running"}' = {t \in Session : pc[t] = "running"}
  BY DEF Tick
<1> HIDE DEF gone
<1>10. QED
  BY <1>4, <1>5, <1>6, <1>8, <1>9, Zenon DEF Service!Lapse

\* Every step of withAppLocks, of its timer and of the clock is a step of the
\* lease service or invisible to it.
LEMMA ServiceStep ==
  TypeInv /\ FreshInv /\ [Next]_vars => [Service!Next]_(Service!vars)
<1> SUFFICES ASSUME TypeInv, FreshInv, [Next]_vars
             PROVE  Service!Next \/ UNCHANGED Service!vars
  OBVIOUS
<1>1. ASSUME NEW s \in Session, InsertRow(s) \/ TakeOver(s)
      PROVE  Service!Next
  <2>1. Acquiring(s) /\ Matches(s) /\ Push(s)
    BY <1>1 DEF InsertRow, TakeOver, Acquiring
  <2>2. PICK n \in Name : n = Target(s)
    BY <2>1, TargetType
  <2>3. Service!Grant(s, n)
    BY <2>1, <2>2, PushGrants
  <2>4. n \in [t \in Session |-> Names(t)][s]
    BY <2>3, Zenon DEF Service!Grant
  <2>5. QED
    BY <2>3, <2>4, Zenon DEF Service!Next
<1>2. ASSUME NEW s \in Session, Start(s) \/ RowExists(s) \/ FireTimer(s)
      PROVE  UNCHANGED Service!vars
  <2>1. row' = row /\ \A t \in Session : Same(t)
    BY <1>2 DEF Start, RowExists, FireTimer, Same, TypeInv, TypeOK
  <2>2. QED
    BY <2>1, Stutter
<1>3. ASSUME NEW s \in Session, Refuse(s)
      PROVE  UNCHANGED Service!vars
  <2>1. row' = row /\ \A t \in Session : Same(t)
    BY <1>3 DEF Refuse, End, Same, TypeInv, TypeOK
  <2>2. QED
    BY <2>1, Stutter
<1>4. ASSUME NEW s \in Session, FinishCallback(s)
      PROVE  Service!Next
  BY <1>4, FinishLeaves, Zenon DEF Service!Next
<1>5. ASSUME NEW s \in Session, Release(s)
      PROVE  Service!Next
  <2>1. PICK n \in Name : n = Target(s)
    BY <1>5, TargetType DEF Release
  <2>2. Service!GiveBack(s, n)
    BY <1>5, <2>1, ReleaseGivesBack
  <2>3. n \in [t \in Session |-> Names(t)][s]
    <3>1. n \in Held(s)
      BY <1>5, <2>1, TargetFacts DEF Release
    <3>2. Held(s) \subseteq Names(s)
      BY RequestFacts DEF TypeInv, TypeOK, Held, Names
    <3>3. QED
      BY <3>1, <3>2
  <2>4. QED
    BY <2>2, <2>3, Zenon DEF Service!Next
<1>6. ASSUME NEW s \in Session, StatementFails(s) \/ Crash(s)
      PROVE  Service!Next
  <2>1. /\ \E r \in Results : End(s, r)
        /\ row' = row \/ (row' = Effect(s) /\ (Acquiring(s) \/ Releasing(s)))
    BY <1>6 DEF StatementFails, Crash, Acquiring, Releasing, Results, TypeInv, TypeOK, PCs
  <2>2. Service!Abandon(s)
    BY <2>1, EndAbandons
  <2>3. QED
    BY <2>2, Zenon DEF Service!Next
<1>7. ASSUME NEW s \in Session, NEW n \in Name, Renew(s, n) \/ RenewFails(s, n)
      PROVE  Service!Next \/ UNCHANGED Service!vars
  <2>1. got' = got /\ pc' = pc
    BY <1>7 DEF Renew, RenewFails
  <2>2. CASE row' = row
    <3>1. \A t \in Session : Same(t)
      BY <2>1 DEF Same
    <3>2. QED
      BY <2>2, <3>1, Stutter
  <2>3. CASE row' # row
    <3>1. row[n].owner = s /\ row' = Renewed(s, n)
      BY <1>7, <2>3 DEF Renew, RenewFails, Renewed
    <3>2. Service!Revive(n)
      BY <2>1, <3>1, RenewRevives
    <3>3. QED
      BY <3>2, Zenon DEF Service!Next
  <2>4. QED
    BY <2>2, <2>3
<1>8. CASE Tick
  BY <1>8, TickLapses, Zenon DEF Service!Next
<1>9. CASE UNCHANGED vars
  <2>1. row' = row /\ \A t \in Session : Same(t)
    BY <1>9 DEF vars, Same
  <2>2. QED
    BY <2>1, Stutter
<1>10. QED
  BY <1>1, <1>2, <1>3, <1>4, <1>5, <1>6, <1>7, <1>8, <1>9 DEF Next, Foreground

\* The leases of app_locks and the callbacks run under them are a lease
\* service (db-lock.ts:38-151): a name in force is never granted to a second
\* session, a callback starts only with all its names, and a name is let go
\* only by the session that was granted it.
THEOREM ImplementsLeaseServiceAlways == Spec => ImplementsLeaseService
<1>1. Init => Service!Init
  <2> SUFFICES ASSUME Init
               PROVE  Service!Init
    OBVIOUS
  <2>1. /\ \A n \in Name : row[n].owner = NoOwner /\ row[n].left = -1
        /\ \A s \in Session : pc[s] # "running" /\ Held(s) = {}
    BY DEF Init, Held
  <2>2. \A n \in Name : (row[n].left > 0) = FALSE
    BY <2>1
  <2>3. {s \in Session : pc[s] = "running"} = {}
    BY <2>1
  <2>4. [n \in Name |-> row[n].left > 0] = [n \in Name |-> FALSE]
    BY <2>2, Zenon
  <2>5. /\ [n \in Name |-> row[n].owner] = [n \in Name |-> NoOwner]
        /\ [s \in Session |-> Held(s)] = [s \in Session |-> {}]
    BY <2>1
  <2>6. QED
    BY <2>3, <2>4, <2>5, Zenon DEF Service!Init
<1>2. Init => FreshInv
  BY DEF Init, FreshInv
<1>3. QED
  BY <1>1, <1>2, TypeInit, TypeStep, FreshStep, ServiceStep, PTL
  DEF Spec, ImplementsLeaseService, Service!Spec

-----------------------------------------------------------------------------
(* Timers and statements that keep to their times. *)

\* What asking for k names can take, an INSERT and an UPDATE for each.
Asking(k) == 2 * Delay * k

\* What the failures still to come can cost a callback: each one makes a lease
\* wait for the next firing of the timer.
Margin == (MaxErrors - errors) * RenewEvery

\* What the configuration has to satisfy: renewals are answered before the timer
\* fires again, and the TTL covers the acquisition of the rest of the list, one
\* renewal, and one more interval for every statement that fails.
Fits ==
  /\ Delay < RenewEvery
  /\ \A s \in Session :
       TTL >= Asking(Len(Request[s]) - 1) + RenewEvery + Delay + MaxErrors * RenewEvery

Pending(s) == cur[s] \cup old[s]

\* The time a session has spent on the name it is asking for.
Spent(s) == (IF pc[s] = "insert" THEN Delay ELSE 2 * Delay) - wait[s]

\* On its way in a session has used up of every lease it took only the time of
\* the statements since.
AcquireTimeAt(s) ==
  Acquiring(s) => \A i \in 1..got[s] :
    lease[s][Request[s][i]] + Asking(got[s] - i) + Spent(s) >= TTL

\* Under the callback no renewal is outstanding when the timer fires, and every
\* lease lasts until its next renewal, failures included.
RunTimeAt(s) ==
  pc[s] = "running" =>
    /\ Pending(s) # {} => timer[s] = (RenewEvery - Delay) + rwait[s]
    /\ \A n \in Names(s) :
         /\ n \in Pending(s) => lease[s][n] >= rwait[s] + Margin
         /\ n \notin Pending(s) => lease[s][n] >= timer[s] + Delay + Margin

TimeInv == \A s \in Session : AcquireTimeAt(s) /\ RunTimeAt(s)

\* One name more costs two statements more, and more names cost no less.
LEMMA AskingFacts ==
  /\ \A k \in Int : Asking(k) \in Int /\ Asking(k + 1) = Asking(k) + 2 * Delay
  /\ \A j, k \in Int : j <= k => Asking(j) <= Asking(k)
  /\ Asking(0) = 0 /\ \A k \in Int : 0 <= k => Asking(k) >= 0
<1>1. Delay \in Nat
  BY TimeAssumption
<1>2. ASSUME NEW k \in Int
      PROVE  Asking(k) \in Int /\ Asking(k + 1) = Asking(k) + 2 * Delay
  BY <1>1 DEF Asking
<1>3. ASSUME NEW j \in Int, NEW k \in Int, j <= k
      PROVE  Asking(j) <= Asking(k)
  <2>1. (2 * Delay) * (k - j) >= 0
    BY <1>1, <1>3
  <2>2. (2 * Delay) * (k - j) = 2 * Delay * k - 2 * Delay * j
    BY <1>1
  <2>3. QED
    BY <1>1, <2>1, <2>2 DEF Asking
<1>4. Asking(0) = 0
  BY <1>1 DEF Asking
<1>5. ASSUME NEW k \in Int, 0 <= k
      PROVE  Asking(k) >= 0
  BY <1>1, <1>5 DEF Asking
<1>6. QED
  BY <1>2, <1>3, <1>4, <1>5

\* The margin is a number between nothing and what all the failures cost; a
\* failure uses one interval of it up.
LEMMA MarginFacts ==
  ASSUME TypeInv
  PROVE  /\ Margin \in Int /\ Margin >= 0 /\ Margin <= MaxErrors * RenewEvery
         /\ MaxErrors * RenewEvery \in Int
         /\ (errors' = errors => Margin' = Margin)
         /\ (errors' = errors + 1 => Margin' = Margin - RenewEvery)
<1>1. /\ RenewEvery \in Nat /\ MaxErrors \in Nat
      /\ errors \in Int /\ errors >= 0 /\ errors <= MaxErrors
  BY TimeAssumption DEF TypeInv, TypeOK, Ticks
<1>2. (MaxErrors - errors) * RenewEvery = MaxErrors * RenewEvery - errors * RenewEvery
  BY <1>1
<1>3. (MaxErrors - errors) * RenewEvery >= 0 /\ errors * RenewEvery >= 0
  BY <1>1
<1>4. (MaxErrors - (errors + 1)) * RenewEvery = (MaxErrors - errors) * RenewEvery - RenewEvery
  BY <1>1
<1>5. QED
  BY <1>1, <1>2, <1>3, <1>4 DEF Margin

\* The numbers of one session.
LEMMA Numbers ==
  ASSUME TypeInv, NEW s \in Session
  PROVE  /\ RenewEvery \in Nat \ {0} /\ Delay \in Nat /\ TTL \in Nat \ {0}
         /\ timer[s] \in Nat /\ timer[s] <= RenewEvery
         /\ wait[s] \in Nat /\ wait[s] <= Delay
         /\ rwait[s] \in Nat /\ rwait[s] <= Delay
         /\ got[s] \in Nat /\ got[s] <= Len(Request[s]) /\ Len(Request[s]) \in Nat
         /\ \A n \in Name : lease[s][n] \in Int
BY RequestFacts, TimeAssumption DEF TypeInv, TypeOK, Ticks, Left

\* A step of another session, even one that fails, disturbs no session's times.
LEMMA TimeKept ==
  ASSUME TypeInv, NEW t \in Session, AcquireTimeAt(t), RunTimeAt(t),
         pc'[t] = pc[t], got'[t] = got[t], lease'[t] = lease[t],
         timer'[t] = timer[t], wait'[t] = wait[t], rwait'[t] = rwait[t],
         cur'[t] = cur[t], old'[t] = old[t],
         errors' = errors \/ errors' = errors + 1
  PROVE  AcquireTimeAt(t)' /\ RunTimeAt(t)'
<1>1. AcquireTimeAt(t)'
  BY DEF AcquireTimeAt, Acquiring, Spent
<1>2. Margin \in Int /\ Margin' \in Int /\ Margin' <= Margin
  BY MarginFacts, Numbers
<1>3. RunTimeAt(t)'
  <2> SUFFICES ASSUME pc[t] = "running"
               PROVE  RunTimeAt(t)'
    BY DEF RunTimeAt
  <2>1. Pending(t)' = Pending(t)
    BY DEF Pending
  <2>2. Pending(t) # {} => timer[t] = (RenewEvery - Delay) + rwait[t]
    BY DEF RunTimeAt
  <2>3. ASSUME NEW n \in Names(t)
        PROVE  /\ n \in Pending(t) => lease'[t][n] >= rwait'[t] + Margin'
               /\ n \notin Pending(t) => lease'[t][n] >= timer'[t] + Delay + Margin'
    <3>1. lease[t][n] \in Int
      BY Numbers, HeldFacts
    <3>2. /\ n \in Pending(t) => lease[t][n] >= rwait[t] + Margin
          /\ n \notin Pending(t) => lease[t][n] >= timer[t] + Delay + Margin
      BY DEF RunTimeAt
    <3>3. QED
      BY SMTT(60), <1>2, <3>1, <3>2, Numbers
  <2>4. QED
    BY <2>1, <2>2, <2>3 DEF RunTimeAt
<1>4. QED
  BY <1>1, <1>3

\* A handle is pushed in time: the leases taken before it still last.
LEMMA TimePush ==
  ASSUME TypeInv, TimerlessInv, Fits,
         NEW s \in Session, AcquireTimeAt(s), Acquiring(s), Push(s)
  PROVE  AcquireTimeAt(s)' /\ RunTimeAt(s)'
<1>1. /\ Target(s) = Request[s][got[s] + 1] /\ Target(s) \in Name
      /\ got[s] + 1 \in 1..Len(Request[s])
  BY TargetType, Numbers DEF Target, TypeInv, GotInv
<1>2. \A i \in 1..got[s] : Request[s][i] # Target(s) /\ Request[s][i] \in Name
  BY <1>1, Numbers, RequestFacts, RequestAssumption
<1>3. /\ lease'[s][Target(s)] = TTL
      /\ \A i \in 1..got[s] : lease'[s][Request[s][i]] = lease[s][Request[s][i]]
  BY <1>1, <1>2 DEF Push, TypeInv, TypeOK
<1>4. Spent(s) \in Int /\ Spent(s) <= 2 * Delay
  BY Numbers DEF Spent
<1>5. ASSUME NEW i \in 1..(got[s] + 1)
      PROVE  lease'[s][Request[s][i]] + Asking((got[s] + 1) - i) >= TTL
  <2>1. CASE i = got[s] + 1
    <3>1. (got[s] + 1) - i = 0
      BY <2>1, Numbers
    <3>2. Asking((got[s] + 1) - i) = 0
      BY <3>1, AskingFacts
    <3>3. lease'[s][Request[s][i]] = TTL
      BY <1>1, <1>3, <2>1
    <3>4. QED
      BY <3>2, <3>3, Numbers
  <2>2. CASE i # got[s] + 1
    <3>1. i \in 1..got[s]
      BY <2>2, Numbers
    <3>2. lease[s][Request[s][i]] + Asking(got[s] - i) + Spent(s) >= TTL
      BY <3>1 DEF AcquireTimeAt
    <3>3. (got[s] - i) \in Int /\ (got[s] + 1) - i = (got[s] - i) + 1
      BY <3>1, Numbers
    <3>4. /\ Asking(got[s] - i) \in Int
          /\ Asking((got[s] + 1) - i) = Asking(got[s] - i) + 2 * Delay
      BY <3>3, AskingFacts
    <3>5. lease[s][Request[s][i]] \in Int
      BY <1>2, <3>1, Numbers
    <3>6. QED
      BY SMTT(60), <1>3, <1>4, <3>1, <3>2, <3>4, <3>5, Numbers
  <2>3. QED
    BY <2>1, <2>2
<1>6. got'[s] = got[s] + 1
  BY DEF Push, TypeInv, TypeOK
<1>7. CASE got[s] + 1 = Len(Request[s])
  <2>1. pc'[s] = "running" /\ timer'[s] = RenewEvery /\ Margin' = Margin
    BY <1>7, MarginFacts DEF Push, TypeInv, TypeOK
  <2>2. Pending(s)' = {}
    BY DEF Push, Pending, TimerlessInv, TimerlessAt, Timerless, Acquiring
  <2>3. ASSUME NEW n \in Names(s)
        PROVE  lease'[s][n] >= RenewEvery + Delay + Margin
    <3>1. PICK i \in 1..(got[s] + 1) : n = Request[s][i]
      BY <1>7 DEF Names
    <3>2. lease'[s][n] + Asking((got[s] + 1) - i) >= TTL
      BY <1>5, <3>1
    <3>3. /\ (got[s] + 1) - i \in Int /\ Len(Request[s]) - 1 \in Int
          /\ (got[s] + 1) - i <= Len(Request[s]) - 1
      BY <1>7, Numbers
    <3>4. /\ Asking((got[s] + 1) - i) \in Int /\ Asking(Len(Request[s]) - 1) \in Int
          /\ Asking((got[s] + 1) - i) <= Asking(Len(Request[s]) - 1)
      BY <3>3, AskingFacts
    <3>5. TTL >= Asking(Len(Request[s]) - 1) + RenewEvery + Delay + MaxErrors * RenewEvery
      BY DEF Fits
    <3>6. lease'[s][n] \in Int
      <4>1. n \in Name /\ lease'[s][n] \in {TTL, lease[s][n]}
        BY HeldFacts, <1>1 DEF Push, TypeInv, TypeOK
      <4>2. QED
        BY <4>1, Numbers
    <3>7. QED
      BY SMTT(60), <3>2, <3>4, <3>5, <3>6, MarginFacts, Numbers
  <2>4. QED
    BY <2>1, <2>2, <2>3 DEF AcquireTimeAt, RunTimeAt, Acquiring
<1>8. CASE got[s] + 1 # Len(Request[s])
  <2>1. pc'[s] = "insert" /\ wait'[s] = Delay
    BY <1>8 DEF Push, TypeInv, TypeOK
  <2>2. Spent(s)' = 0
    BY <2>1, Numbers DEF Spent
  <2>3. ASSUME NEW i \in 1..(got[s] + 1)
        PROVE  lease'[s][Request[s][i]] + Asking((got[s] + 1) - i) + 0 >= TTL
    <3>1. (got[s] + 1) - i \in Int
      BY Numbers
    <3>2. Asking((got[s] + 1) - i) \in Int
      BY <3>1, AskingFacts
    <3>3. lease'[s][Request[s][i]] \in Int
      <4>1. Request[s][i] \in Name
        BY <1>1, <1>2, Numbers
      <4>2. lease'[s][Request[s][i]] \in {TTL, lease[s][Request[s][i]]}
        BY <1>1, <4>1 DEF Push, TypeInv, TypeOK
      <4>3. QED
        BY <4>1, <4>2, Numbers
    <3>4. QED
      BY <1>5, <3>2, <3>3
  <2>4. QED
    BY <1>6, <2>1, <2>2, <2>3 DEF AcquireTimeAt, RunTimeAt
<1>9. QED
  BY <1>7, <1>8

\* The row is taken: the UPDATE has a full delay, the INSERT used at most one.
LEMMA TimeRowExists ==
  ASSUME TypeInv, NEW s \in Session, AcquireTimeAt(s), RowExists(s)
  PROVE  AcquireTimeAt(s)'
<1>1. /\ pc[s] = "insert" /\ pc'[s] = "update" /\ wait'[s] = Delay
      /\ got'[s] = got[s] /\ lease'[s] = lease[s]
  BY DEF RowExists, TypeInv, TypeOK
<1>2. Spent(s) \in Int /\ Spent(s)' \in Int /\ Spent(s)' >= Spent(s)
  BY <1>1, Numbers DEF Spent
<1>3. ASSUME NEW i \in 1..got[s]
      PROVE  lease[s][Request[s][i]] + Asking(got[s] - i) + Spent(s)' >= TTL
  <2>1. lease[s][Request[s][i]] + Asking(got[s] - i) + Spent(s) >= TTL
    BY <1>1 DEF AcquireTimeAt, Acquiring
  <2>2. lease[s][Request[s][i]] \in Int
    BY Numbers, RequestFacts
  <2>3. got[s] - i \in Int
    BY Numbers
  <2>4. Asking(got[s] - i) \in Int
    BY <2>3, AskingFacts
  <2>5. QED
    BY <1>2, <2>1, <2>2, <2>4, Numbers
<1>4. QED
  BY <1>1, <1>3 DEF AcquireTimeAt

\* The timer fires only when every renewal has been answered, so that it renews
\* all the leases of the callback.
LEMMA TimeFire ==
  ASSUME TypeInv, Fits, NEW s \in Session, RunTimeAt(s), FireTimer(s)
  PROVE  RunTimeAt(s)'
<1>1. pc[s] = "running" /\ timer[s] = 0
  BY DEF FireTimer
<1>2. Pending(s) = {}
  BY <1>1, Numbers DEF RunTimeAt, Fits
<1>3. /\ cur'[s] = Names(s) /\ old'[s] = {} /\ rwait'[s] = Delay
      /\ timer'[s] = RenewEvery /\ lease' = lease /\ pc' = pc
  BY <1>2 DEF FireTimer, Pending, TypeInv, TypeOK
<1>4. Pending(s)' = Names(s) /\ Margin' = Margin
  BY <1>3, MarginFacts DEF Pending, FireTimer
<1>5. timer'[s] = (RenewEvery - Delay) + rwait'[s]
  BY <1>3, Numbers
<1>6. ASSUME NEW n \in Names(s)
      PROVE  lease'[s][n] >= rwait'[s] + Margin
  <2>1. lease[s][n] >= timer[s] + Delay + Margin
    BY <1>1, <1>2 DEF RunTimeAt
  <2>2. QED
    BY <1>1, <1>3, <2>1, MarginFacts, Numbers
<1>7. QED
  BY <1>4, <1>5, <1>6 DEF RunTimeAt

\* A renewal is settled, one way or the other: the lease of its name has to last
\* until the renewal after the next firing, the others are as they were.
LEMMA TimeSettle ==
  ASSUME TypeInv, NEW s \in Session, RunTimeAt(s), pc[s] = "running", NEW n \in Name,
         n \in Pending(s), Pending(s)' = Pending(s) \ {n},
         pc' = pc, timer' = timer, rwait' = rwait,
         \A m \in Name : m # n => lease'[s][m] = lease[s][m],
         errors' = errors \/ errors' = errors + 1,
         n \in Names(s) => lease'[s][n] >= timer[s] + Delay + Margin'
  PROVE  RunTimeAt(s)'
<1>1. Margin \in Int /\ Margin' \in Int /\ Margin' <= Margin
  BY MarginFacts, Numbers
<1>2. Pending(s)' # {} => timer'[s] = (RenewEvery - Delay) + rwait'[s]
  BY DEF RunTimeAt
<1>3. ASSUME NEW m \in Names(s)
      PROVE  /\ m \in Pending(s)' => lease'[s][m] >= rwait'[s] + Margin'
             /\ m \notin Pending(s)' => lease'[s][m] >= timer'[s] + Delay + Margin'
  <2>1. CASE m = n
    BY <2>1
  <2>2. CASE m # n
    <3>1. m \in Name /\ lease[s][m] \in Int
      BY HeldFacts, Numbers
    <3>2. lease'[s][m] = lease[s][m] /\ (m \in Pending(s)' <=> m \in Pending(s))
      BY <2>2, <3>1
    <3>3. /\ m \in Pending(s) => lease[s][m] >= rwait[s] + Margin
          /\ m \notin Pending(s) => lease[s][m] >= timer[s] + Delay + Margin
      BY DEF RunTimeAt
    <3>4. QED
      BY SMTT(60), <1>1, <3>1, <3>2, <3>3, Numbers
  <2>3. QED
    BY <2>1, <2>2
<1>4. QED
  BY <1>2, <1>3 DEF RunTimeAt

\* A full TTL covers a renewal and all the failures to come.
LEMMA FullLease ==
  ASSUME TypeInv, Fits, NEW s \in Session
  PROVE  TTL >= timer[s] + Delay + Margin
<1>1. Asking(Len(Request[s]) - 1) \in Int /\ Asking(Len(Request[s]) - 1) >= 0
  <2>1. Len(Request[s]) - 1 \in Int /\ 0 <= Len(Request[s]) - 1
    BY RequestFacts
  <2>2. QED
    BY <2>1, AskingFacts
<1>2. TTL >= Asking(Len(Request[s]) - 1) + RenewEvery + Delay + MaxErrors * RenewEvery
  BY DEF Fits
<1>3. QED
  BY SMTT(60), <1>1, <1>2, MarginFacts, Numbers

\* A callback owns every row it asked for, so that each renewal finds its row.
LEMMA RunningOwns ==
  ASSUME TypeInv, LeaseIsRow, NEW s \in Session, RunTimeAt(s), pc[s] = "running",
         NEW n \in Names(s)
  PROVE  lease[s][n] >= 0 /\ row[n] = [owner |-> s, left |-> lease[s][n]]
<1>1. n \in Name /\ lease[s][n] \in Int
  BY HeldFacts, Numbers
<1>2. /\ n \in Pending(s) => lease[s][n] >= rwait[s] + Margin
      /\ n \notin Pending(s) => lease[s][n] >= timer[s] + Delay + Margin
  BY DEF RunTimeAt
<1>3. lease[s][n] >= 0
  BY SMTT(60), <1>1, <1>2, MarginFacts, Numbers
<1>4. QED
  BY <1>1, <1>3 DEF LeaseIsRow

\* A renewal under the callback, answered or failed.
LEMMA TimeRenew ==
  ASSUME TypeInv, LeaseIsRow, Fits, NEW s \in Session, RunTimeAt(s),
         pc[s] = "running", NEW n \in Name, Renew(s, n) \/ RenewFails(s, n)
  PROVE  RunTimeAt(s)'
<1>1. Held(s) = Names(s)
  BY DEF TypeInv, GotInv, Held, Names
<1>2. n \in Pending(s) /\ pc' = pc /\ timer' = timer /\ rwait' = rwait
  BY DEF Renew, RenewFails, Pending
<1>3. Pending(s)' = Pending(s) \ {n}
  <2>1. CASE Reject(s, n)
    BY <1>2, <2>1 DEF Reject, Pending, TypeInv, TypeOK
  <2>2. CASE ~Reject(s, n)
    BY <2>2 DEF Renew, RenewFails, Pending, TypeInv, TypeOK
  <2>3. QED
    BY <2>1, <2>2
<1>4. \A m \in Name : m # n => lease'[s][m] = lease[s][m]
  BY DEF Renew, RenewFails, TypeInv, TypeOK
<1>5. CASE Renew(s, n)
  <2>1. errors' = errors /\ Margin' = Margin
    BY <1>5, MarginFacts DEF Renew
  <2>2. ASSUME n \in Names(s)
        PROVE  lease'[s][n] = TTL
    <3>0. row[n] = [owner |-> s, left |-> lease[s][n]]
      BY <2>2, RunningOwns
    <3>1. row[n].owner = s
      BY <3>0
    <3>2. QED
      BY <1>1, <1>5, <2>2, <3>1 DEF Renew, TypeInv, TypeOK
  <2>3. QED
    BY <1>2, <1>3, <1>4, <2>1, <2>2, FullLease, TimeSettle
<1>6. CASE RenewFails(s, n)
  <2>1. errors' = errors + 1 /\ Margin' = Margin - RenewEvery
    BY <1>6, MarginFacts DEF RenewFails
  <2>2. ASSUME n \in Names(s)
        PROVE  lease'[s][n] >= timer[s] + Delay + Margin'
    <3>1. lease'[s][n] = TTL \/ lease'[s][n] = lease[s][n]
      BY <1>1, <1>6, <2>2 DEF RenewFails, TypeInv, TypeOK
    <3>2. /\ lease[s][n] >= rwait[s] + Margin
          /\ timer[s] = (RenewEvery - Delay) + rwait[s]
      BY <1>2, <2>2 DEF RunTimeAt
    <3>3. lease[s][n] \in Int
      BY Numbers
    <3>4. CASE lease'[s][n] = TTL
      BY <2>1, <3>4, FullLease, MarginFacts, Numbers
    <3>5. CASE lease'[s][n] = lease[s][n]
      BY <2>1, <3>2, <3>3, <3>5, MarginFacts, Numbers
    <3>6. QED
      BY <3>1, <3>4, <3>5
  <2>3. QED
    BY <1>2, <1>3, <1>4, <2>1, <2>2, TimeSettle
<1>7. QED
  BY <1>5, <1>6

\* A prompt system ticks only while every countdown still has time left, and a
\* tick takes as much off every lease.
LEMMA TimeTick ==
  ASSUME TypeInv, Prompt, NEW s \in Session, AcquireTimeAt(s), RunTimeAt(s), Tick
  PROVE  AcquireTimeAt(s)' /\ RunTimeAt(s)'
<1>1. OnTime(s)
  BY DEF Tick
<1>2. /\ pc' = pc /\ got' = got /\ errors' = errors
      /\ timer'[s] = Less(timer[s]) /\ wait'[s] = Less(wait[s])
      /\ rwait'[s] = Less(rwait[s]) /\ Pending(s)' = Pending(s)
  BY DEF Tick, Pending
<1>3. ASSUME NEW n \in Name
      PROVE  lease'[s][n] \in Int /\ lease'[s][n] >= lease[s][n] - 1
  <2>1. lease'[s][n] = LeaseLess(lease[s][n])
    BY DEF Tick
  <2>2. QED
    BY <2>1, Numbers DEF LeaseLess
<1>4. AcquireTimeAt(s)'
  <2> SUFFICES ASSUME Acquiring(s), NEW i \in 1..got[s]
               PROVE  lease'[s][Request[s][i]] + Asking(got[s] - i) + Spent(s)' >= TTL
    BY <1>2 DEF AcquireTimeAt, Acquiring
  <2>1. wait'[s] = wait[s] - 1
    BY <1>1, <1>2, Numbers DEF OnTime, Less
  <2>2. Spent(s) \in Int /\ Spent(s)' = Spent(s) + 1
    <3>1. pc'[s] = pc[s]
      BY <1>2
    <3>2. wait[s] \in Int /\ Delay \in Int /\ 2 * Delay \in Int
      BY Numbers
    <3>3. CASE pc[s] = "insert"
      BY <2>1, <3>1, <3>2, <3>3 DEF Spent
    <3>4. CASE pc[s] # "insert"
      BY <2>1, <3>1, <3>2, <3>4 DEF Spent
    <3>5. QED
      BY <3>3, <3>4
  <2>3. Request[s][i] \in Name
    BY Numbers, RequestFacts
  <2>4. lease[s][Request[s][i]] + Asking(got[s] - i) + Spent(s) >= TTL
    BY DEF AcquireTimeAt
  <2>5. got[s] - i \in Int
    BY Numbers
  <2>6. Asking(got[s] - i) \in Int
    BY <2>5, AskingFacts
  <2>7. lease[s][Request[s][i]] \in Int
    BY <2>3, Numbers
  <2>8. /\ lease'[s][Request[s][i]] \in Int
        /\ lease'[s][Request[s][i]] >= lease[s][Request[s][i]] - 1
    BY <1>3, <2>3
  <2>9. TTL \in Int /\ Spent(s)' \in Int
    BY <2>2, Numbers
  <2>10. QED
    BY <2>2, <2>4, <2>6, <2>7, <2>8, <2>9
<1>5. RunTimeAt(s)'
  <2> SUFFICES ASSUME pc[s] = "running"
               PROVE  RunTimeAt(s)'
    BY <1>2 DEF RunTimeAt
  <2>1. timer'[s] = timer[s] - 1
    BY <1>1, <1>2, Numbers DEF OnTime, Less
  <2>2. Pending(s) # {} => rwait'[s] = rwait[s] - 1
    BY <1>1, <1>2, Numbers DEF OnTime, Less, Pending
  <2>3. Margin \in Int /\ Margin' = Margin
    BY <1>2, MarginFacts
  <2>4. Pending(s) # {} => timer'[s] = (RenewEvery - Delay) + rwait'[s]
    BY <2>1, <2>2, Numbers DEF RunTimeAt
  <2>5. ASSUME NEW n \in Names(s)
        PROVE  /\ n \in Pending(s) => lease'[s][n] >= rwait'[s] + Margin
               /\ n \notin Pending(s) => lease'[s][n] >= timer'[s] + Delay + Margin
    <3>1. n \in Name /\ lease[s][n] \in Int
      BY HeldFacts, Numbers
    <3>2. /\ n \in Pending(s) => lease[s][n] >= rwait[s] + Margin
          /\ n \notin Pending(s) => lease[s][n] >= timer[s] + Delay + Margin
      BY DEF RunTimeAt
    <3>3. lease'[s][n] \in Int /\ lease'[s][n] >= lease[s][n] - 1
      BY <1>3, <3>1
    <3>4. timer[s] \in Int /\ rwait[s] \in Int /\ Delay \in Int
      BY Numbers
    <3>5. n \in Pending(s) => rwait'[s] = rwait[s] - 1
      BY <2>2
    <3>6. QED
      BY <2>1, <2>3, <3>1, <3>2, <3>3, <3>4, <3>5
  <2>6. QED
    BY <1>2, <2>3, <2>4, <2>5 DEF RunTimeAt
<1>6. QED
  BY <1>4, <1>5

\* A session that a step leaves neither asking for names nor under its callback
\* has no times to keep.
LEMMA TimeOver ==
  ASSUME NEW s \in Session, pc'[s] \notin {"insert", "update", "running"}
  PROVE  AcquireTimeAt(s)' /\ RunTimeAt(s)'
BY DEF AcquireTimeAt, RunTimeAt, Acquiring

\* Every step of a prompt system keeps the times.
LEMMA TimeStep ==
  ASSUME Prompt, Fits, TypeInv, TimerlessInv, LeaseIsRow, TimeInv, [Next]_vars
  PROVE  TimeInv'
<1> SUFFICES ASSUME NEW t \in Session
             PROVE  AcquireTimeAt(t)' /\ RunTimeAt(t)'
  BY DEF TimeInv
<1>0. AcquireTimeAt(t) /\ RunTimeAt(t)
  BY DEF TimeInv
<1>1. CASE Tick
  BY <1>0, <1>1, TimeTick
<1>2. CASE UNCHANGED vars
  BY <1>0, <1>2, TimeKept DEF vars
<1>3. ASSUME NEW s \in Session, s # t, Start(s) \/ Foreground(s)
      PROVE  AcquireTimeAt(t)' /\ RunTimeAt(t)'
  <2>1. /\ pc'[t] = pc[t] /\ got'[t] = got[t] /\ lease'[t] = lease[t]
        /\ timer'[t] = timer[t] /\ wait'[t] = wait[t]
    BY <1>3 DEF Start, Foreground, InsertRow, TakeOver, Push, RowExists, Refuse,
                FinishCallback, Release, End, TypeInv, TypeOK
  <2>2. rwait' = rwait /\ cur' = cur /\ old' = old /\ errors' = errors
    BY <1>3 DEF Start, Foreground, InsertRow, TakeOver, Push, RowExists, Refuse,
                FinishCallback, Release
  <2>3. QED
    BY <1>0, <2>1, <2>2, TimeKept
<1>4. ASSUME NEW s \in Session, s # t, StatementFails(s) \/ Crash(s) \/ FireTimer(s)
      PROVE  AcquireTimeAt(t)' /\ RunTimeAt(t)'
  <2>1. /\ pc'[t] = pc[t] /\ got'[t] = got[t] /\ lease'[t] = lease[t]
        /\ timer'[t] = timer[t] /\ wait'[t] = wait[t]
        /\ rwait'[t] = rwait[t] /\ cur'[t] = cur[t] /\ old'[t] = old[t]
    BY <1>4 DEF StatementFails, Crash, FireTimer, End, TypeInv, TypeOK
  <2>2. errors' = errors \/ errors' = errors + 1
    BY <1>4 DEF StatementFails, Crash, FireTimer
  <2>3. QED
    BY <1>0, <2>1, <2>2, TimeKept
<1>5. ASSUME NEW s \in Session, s # t, NEW n \in Name, Renew(s, n) \/ RenewFails(s, n)
      PROVE  AcquireTimeAt(t)' /\ RunTimeAt(t)'
  <2>1. /\ pc'[t] = pc[t] /\ got'[t] = got[t] /\ lease'[t] = lease[t]
        /\ timer'[t] = timer[t] /\ wait'[t] = wait[t]
        /\ rwait'[t] = rwait[t] /\ cur'[t] = cur[t] /\ old'[t] = old[t]
    BY <1>5 DEF Renew, RenewFails, Reject, TypeInv, TypeOK
  <2>2. errors' = errors \/ errors' = errors + 1
    BY <1>5 DEF Renew, RenewFails
  <2>3. QED
    BY <1>0, <2>1, <2>2, TimeKept
<1>6. CASE Start(t)
  <2>1. pc'[t] = "insert" /\ got'[t] = 0
    BY <1>6 DEF Start, TypeInv, TypeOK, GotInv
  <2>2. QED
    BY <2>1 DEF AcquireTimeAt, RunTimeAt
<1>7. CASE InsertRow(t) \/ TakeOver(t)
  <2>1. Acquiring(t) /\ Push(t)
    BY <1>7 DEF InsertRow, TakeOver, Acquiring
  <2>2. QED
    BY <1>0, <2>1, TimePush
<1>8. CASE RowExists(t)
  <2>1. pc'[t] = "update"
    BY <1>8 DEF RowExists, TypeInv, TypeOK
  <2>2. RunTimeAt(t)'
    BY <2>1 DEF RunTimeAt
  <2>3. QED
    BY <1>0, <1>8, <2>2, TimeRowExists
<1>9. CASE Refuse(t) \/ FinishCallback(t) \/ Release(t) \/ StatementFails(t) \/ Crash(t)
  <2>1. pc'[t] \notin {"insert", "update", "running"}
    BY <1>9 DEF Refuse, FinishCallback, Release, StatementFails, Crash, End, Releasing,
                TypeInv, TypeOK
  <2>2. QED
    BY <2>1, TimeOver
<1>10. CASE FireTimer(t)
  <2>1. pc'[t] = "running"
    BY <1>10 DEF FireTimer
  <2>2. AcquireTimeAt(t)'
    BY <2>1 DEF AcquireTimeAt, Acquiring
  <2>3. QED
    BY <1>0, <1>10, <2>2, TimeFire
<1>11. ASSUME NEW n \in Name, Renew(t, n) \/ RenewFails(t, n)
       PROVE  AcquireTimeAt(t)' /\ RunTimeAt(t)'
  <2>1. n \in Pending(t) /\ pc' = pc
    BY <1>11 DEF Renew, RenewFails, Pending
  <2>2. ~Acquiring(t)
    BY <2>1 DEF TimerlessInv, TimerlessAt, Timerless, Acquiring, Pending
  <2>3. CASE pc[t] = "running"
    <3>1. AcquireTimeAt(t)'
      BY <2>1, <2>2 DEF AcquireTimeAt, Acquiring
    <3>2. QED
      BY <1>0, <1>11, <2>3, <3>1, TimeRenew
  <2>4. CASE pc[t] # "running"
    BY <2>1, <2>2, <2>4, TimeOver DEF Acquiring
  <2>5. QED
    BY <2>3, <2>4
<1>12. QED
  BY <1>1, <1>2, <1>3, <1>4, <1>5, <1>6, <1>7, <1>8, <1>9, <1>10, <1>11
  DEF Next, Foreground

\* When timers and statements keep to their times and the configuration fits,
\* every lease of a callback lasts until it is renewed.
THEOREM TimeAlways == Prompt /\ Fits /\ Spec => [](TypeInv /\ LeaseIsRow /\ TimeInv)
<1>1. Init => LeaseIsRow /\ TimerlessInv
  BY DEF Init, LeaseIsRow, TimerlessInv, TimerlessAt, Timerless
<1>2. Init => TimeInv
  BY DEF Init, TimeInv, AcquireTimeAt, RunTimeAt, Acquiring
<1>3. Prompt /\ Fits /\ TypeInv /\ TimerlessInv /\ LeaseIsRow /\ TimeInv /\ [Next]_vars
        => TimeInv'
  BY TimeStep
<1>4. CASE ~(Prompt /\ Fits)
  BY <1>4
<1>5. CASE Prompt /\ Fits
  <2>1. TypeInv /\ TimerlessInv /\ LeaseIsRow /\ TimeInv /\ [Next]_vars => TimeInv'
    BY <1>3, <1>5
  <2>2. QED
    BY <1>1, <1>2, <2>1, TypeInit, TypeStep, LeaseIsRowStep, TimerlessStep, PTL DEF Spec
<1>6. QED
  BY <1>4, <1>5

\* "Renewal keeps long-running jobs alive indefinitely" (db-lock.ts:154): a
\* callback owns the row of every one of its names, with time left on it, for as
\* long as it runs, renewals that fail included.
THEOREM RunningHoldsLeasesAlways == Prompt /\ Fits /\ Spec => []RunningHoldsLeases
<1>1. TypeInv /\ LeaseIsRow /\ TimeInv => RunningHoldsLeases
  <2> SUFFICES ASSUME TypeInv, LeaseIsRow, TimeInv, NEW s \in Session,
                      pc[s] = "running", NEW n \in Names(s)
               PROVE  row[n].owner = s /\ row[n].left >= 0
    BY DEF RunningHoldsLeases
  <2>1. lease[s][n] >= 0 /\ row[n] = [owner |-> s, left |-> lease[s][n]]
    BY RunningOwns DEF TimeInv
  <2>2. row[n].owner = s /\ row[n].left = lease[s][n]
    BY <2>1
  <2>3. QED
    BY <2>1, <2>2
<1>2. QED
  BY <1>1, TimeAlways, PTL

\* No two callbacks ever run under the same lock name: the purpose of the locks
\* (README.md:310).
THEOREM MutexAlways == Prompt /\ Fits /\ Spec => []Mutex
<1>1. RunningHoldsLeases => Mutex
  BY DEF RunningHoldsLeases, Mutex
<1>2. QED
  BY <1>1, RunningHoldsLeasesAlways, PTL
=============================================================================
