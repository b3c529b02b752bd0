-------------------------- MODULE ServicesProofs ----------------------------
(***************************************************************************)
(* Proofs about the proxy pool, the bot and the retention cleanup: for     *)
(* every number of requests, jobs, preflights and proxies, every number of *)
(* updates, commands and restarts and every size of a page, and every set  *)
(* of rows and size of a batch; then about the parts of the service side   *)
(* by side, with what JobsProofs and MigrationsProofs say of theirs.       *)
(***************************************************************************)
EXTENDS MCServices, JobsProofs, MigrationsProofs, FiniteSetTheorems, SequenceTheorems,
        TLAPS

-----------------------------------------------------------------------------
(* The bot. *)

\* The first update that the process may still be given.
NextUpdate == FirstQueued(offset)

\* The types of what the bot and the server keep.
BotShape ==
  /\ sent \in 0..MaxUpdates /\ backlog \in 0..sent /\ confirmed \in 1..(sent + 1)
  /\ bot \in {"down", "bootstrap", "poll", "handle", "lost"}
  /\ offset \in 0..(sent + 1) /\ starts \in 0..MaxStarts
  /\ batch \in Seq(1..sent)
  /\ runs \in [1..MaxUpdates -> Nat] /\ answers \in [1..MaxUpdates -> Nat]
  /\ heard \subseteq 1..sent

\* What was started is behind the bot: below the next update while it polls,
\* and in the backlog that it passes over while it starts.
BotInv ==
  /\ \A u \in 1..MaxUpdates : runs[u] <= 1 /\ answers[u] <= runs[u]
  /\ \A u \in 1..MaxUpdates : runs[u] > 0 => u <= sent
  /\ bot = "bootstrap" => \A u \in 1..MaxUpdates : runs[u] > 0 => u <= backlog
  /\ bot \in {"poll", "handle"} =>
       NextUpdate > backlog /\ \A u \in 1..MaxUpdates : runs[u] > 0 => u < NextUpdate
  /\ bot \notin {"poll", "handle"} => batch = << >>
  /\ \A i \in 1..Len(batch) : batch[i] = NextUpdate + i - 1
  /\ bot = "handle" =>
       /\ offset - 1 > backlog /\ offset - 1 \in 1..MaxUpdates
       /\ runs[offset - 1] = 1 /\ answers[offset - 1] = 0

\* A page is of consecutive updates that are queued, from the next one on, and
\* ends with the last one sent if it is not full.
LEMMA AnswerPage ==
  ASSUME BotShape
  PROVE  /\ Answer(offset) \in Seq(1..sent) /\ Len(Answer(offset)) \in Nat
         /\ \A i \in 1..Len(Answer(offset)) : Answer(offset)[i] = NextUpdate + i - 1
         /\ Answer(offset) # << >> =>
              /\ Answer(offset)[Len(Answer(offset))] + 1 = NextUpdate + Len(Answer(offset))
              /\ NextUpdate + Len(Answer(offset)) \in 1..(sent + 1)
              /\ Len(Answer(offset)) > 0
         /\ Len(Answer(offset)) < Limit => NextUpdate + Len(Answer(offset)) > sent
         /\ NextUpdate \in 1..(sent + 1) /\ NextUpdate >= offset /\ NextUpdate >= confirmed
<1> DEFINE n == sent + 1 - FirstQueued(offset)
           len == IF n < Limit THEN n ELSE Limit
<1>1. FirstQueued(offset) \in 1..(sent + 1) /\ FirstQueued(offset) >= offset
      /\ FirstQueued(offset) >= confirmed /\ sent \in Nat
  BY DEF BotShape, FirstQueued
<1>2. n \in Nat /\ len \in Nat /\ len <= n /\ (len < Limit => len = n)
  BY <1>1, BotAssumption
<1>3. Answer(offset) = [i \in 1..len |-> FirstQueued(offset) + i - 1]
  BY DEF Answer
<1>4. \A i \in 1..len : FirstQueued(offset) + i - 1 \in 1..sent
  BY <1>1, <1>2
<1>5. Answer(offset) \in Seq(1..sent) /\ Len(Answer(offset)) = len
  <2> HIDE DEF n, len
  <2> QED
    BY <1>2, <1>3, <1>4
<1>6. Answer(offset) # << >> => len > 0
  BY <1>2, <1>3, <1>5
<1>7. /\ \A i \in 1..len : Answer(offset)[i] = FirstQueued(offset) + i - 1
      /\ len > 0 => Answer(offset)[len] + 1 = FirstQueued(offset) + len
  <2> HIDE DEF n, len
  <2> QED
    BY <1>1, <1>2, <1>3
<1>8. FirstQueued(offset) + len <= sent + 1
  BY <1>1, <1>2
<1>9. len < Limit => FirstQueued(offset) + len > sent
  BY <1>1, <1>2
<1>10. QED
  <2> HIDE DEF n, len
  <2> QED
    BY <1>1, <1>2, <1>5, <1>6, <1>7, <1>8, <1>9 DEF NextUpdate

\* The types are inductive.
LEMMA BotShapeStep ==
  ASSUME BotShape, BotInv, [BotNext]_botVars
  PROVE  BotShape'
<1> USE DEF BotShape
<1>0. NextUpdate \in 1..(sent + 1) /\ sent \in Nat
  BY AnswerPage
<1>1. CASE Write
  <2>1. /\ sent' = sent + 1 /\ sent' \in 0..MaxUpdates /\ 1..sent \subseteq 1..sent'
        /\ heard' \subseteq 1..sent'
    BY <1>1, BotAssumption DEF Write
  <2>2. batch' \in Seq(1..sent')
    BY <1>1, <2>1 DEF Write
  <2>3. QED
    BY <1>1, <2>1, <2>2 DEF Write
<1>2. CASE StartBot
  BY <1>2, BotAssumption DEF StartBot
<1>3. CASE Bootstrap
  <2>1. offset' \in 0..(sent + 1)
    <3>1. offset' \in {offset, Answer(offset)[Len(Answer(offset))] + 1}
          /\ (Answer(offset) = << >> => offset' = offset)
      BY <1>3 DEF Bootstrap
    <3>2. Answer(offset) # << >> => Answer(offset)[Len(Answer(offset))] + 1 \in 0..(sent + 1)
      BY <1>0, AnswerPage
    <3>3. QED
      BY <3>1, <3>2
  <2>2. QED
    BY <1>0, <1>3, <2>1 DEF Bootstrap, Confirm, NextUpdate
<1>4. CASE BootstrapFails \/ PollFails
  BY <1>0, <1>4 DEF BootstrapFails, PollFails, NextUpdate
<1>5. CASE Poll
  BY <1>0, <1>5, AnswerPage DEF Poll, Confirm, NextUpdate
<1>6. CASE Handle
  <2>1. Head(batch) \in 1..sent /\ Tail(batch) \in Seq(1..sent)
    BY <1>6 DEF Handle
  <2>2. Head(batch) \in 1..MaxUpdates /\ Head(batch) + 1 \in 0..(sent + 1)
    BY SMTT(60), <1>0, <2>1, BotAssumption
  <2>3. runs' \in [1..MaxUpdates -> Nat]
    BY SMTT(60), <1>6, <2>2 DEF Handle
  <2>4. QED
    BY <1>6, <2>1, <2>2, <2>3 DEF Handle
<1>7. CASE Reply
  BY <1>7 DEF Reply, BotInv
<1>8. CASE StopBot
  BY <1>8 DEF StopBot
<1>9. CASE UNCHANGED botVars
  BY <1>9 DEF botVars
<1>10. QED
  BY <1>1, <1>2, <1>3, <1>4, <1>5, <1>6, <1>7, <1>8, <1>9 DEF BotNext, BotStep

\* No update is given to the process again once its command has started.
LEMMA BotInvStep ==
  ASSUME BotShape, BotInv, [BotNext]_botVars
  PROVE  BotInv'
<1> USE DEF BotShape
<1>0. NextUpdate \in 1..(sent + 1) /\ sent \in Nat /\ offset \in Nat /\ backlog \in Nat
  BY AnswerPage
<1>1. CASE Write
  BY <1>1 DEF Write, BotInv, NextUpdate, FirstQueued
<1>2. CASE StartBot
  BY <1>2 DEF StartBot, BotInv, NextUpdate, FirstQueued
<1>3. CASE Bootstrap
  <2>1. /\ confirmed' = NextUpdate /\ batch' = batch /\ batch = << >>
        /\ runs' = runs /\ answers' = answers /\ backlog' = backlog /\ sent' = sent
        /\ bot' \in {"bootstrap", "poll"}
    BY <1>3 DEF Bootstrap, Confirm, NextUpdate, BotInv
  <2>2. bot' = "poll" => NextUpdate' > sent
    <3>1. CASE Answer(offset) = << >>
      BY <1>0, <1>3, <2>1, <3>1, AnswerPage DEF Bootstrap, NextUpdate, FirstQueued
    <3>2. CASE Answer(offset) # << >>
      <4>1. offset' = Answer(offset)[Len(Answer(offset))] + 1
        BY <1>3, <3>2 DEF Bootstrap
      <4>2. offset' = NextUpdate + Len(Answer(offset))
        BY <3>2, <4>1, AnswerPage
      <4>3. QED
        BY <1>0, <1>3, <2>1, <4>1, <4>2, AnswerPage DEF Bootstrap, NextUpdate, FirstQueued
    <3>3. QED
      BY <3>1, <3>2
  <2>3. NextUpdate' \in Int
    BY <1>3, BotShapeStep, AnswerPage DEF BotNext, BotStep, NextUpdate, FirstQueued
  <2>4. \A v \in 1..MaxUpdates : runs[v] > 0 => v <= backlog /\ v <= sent
    BY <1>3 DEF Bootstrap, BotInv
  <2>5. bot' = "poll" => /\ NextUpdate' > backlog
                         /\ \A v \in 1..MaxUpdates : runs[v] > 0 => v < NextUpdate'
    BY <1>0, <2>2, <2>3, <2>4
  <2>6. QED
    BY <2>1, <2>4, <2>5 DEF BotInv
<1>4. CASE BootstrapFails
  BY <1>4 DEF BootstrapFails, BotInv
<1>5. CASE PollFails
  BY <1>0, <1>5 DEF PollFails, BotInv, NextUpdate, FirstQueued
<1>6. CASE Poll
  <2>1. confirmed' = NextUpdate /\ offset' = offset /\ batch' = Answer(offset)
    BY <1>6 DEF Poll, Confirm, NextUpdate
  <2>2. NextUpdate' = NextUpdate
    BY <1>0, <2>1, AnswerPage DEF NextUpdate, FirstQueued
  <2>3. QED
    BY <1>0, <1>6, <2>1, <2>2, AnswerPage DEF Poll, BotInv
<1>7. CASE Handle
  <2> DEFINE u == Head(batch)
  <2>1. /\ Len(batch) \in Nat /\ Len(batch) > 0 /\ u = batch[1] /\ u \in 1..sent
        /\ Len(Tail(batch)) = Len(batch) - 1
        /\ \A i \in 1..Len(Tail(batch)) : Tail(batch)[i] = batch[i + 1]
    BY <1>7 DEF Handle
  <2>2. u = NextUpdate /\ u >= confirmed /\ u > backlog /\ u \in 1..MaxUpdates
    <3>1. batch[1] = NextUpdate
      BY <1>0, <2>1 DEF BotInv
    <3>2. NextUpdate > backlog /\ NextUpdate >= confirmed
      BY <1>7, AnswerPage DEF Handle, BotInv
    <3>3. u \in 1..MaxUpdates
      BY SMTT(60), <2>1, BotAssumption
    <3>4. QED
      BY <2>1, <3>1, <3>2, <3>3
  <2>3. /\ offset' = u + 1 /\ batch' = Tail(batch) /\ bot' \in {"poll", "handle"}
        /\ bot' = "handle" <=> u \in Commands
        /\ confirmed' = confirmed /\ backlog' = backlog /\ sent' = sent /\ answers' = answers
        /\ \A v \in 1..MaxUpdates : v # u => runs'[v] = runs[v]
        /\ runs'[u] = IF u \in Commands THEN runs[u] + 1 ELSE runs[u]
    BY <1>7, <2>2 DEF Handle
  <2>4. NextUpdate' = u + 1
    BY <1>0, <2>2, <2>3 DEF NextUpdate, FirstQueued
  <2>5. runs[u] = 0 /\ answers[u] = 0
    <3>1. ~(runs[u] > 0) /\ runs[u] \in Nat /\ answers[u] \in Nat /\ answers[u] <= runs[u]
      BY <1>0, <1>7, <2>2 DEF Handle, BotInv
    <3>2. QED
      BY <3>1
  <2>6. \A v \in 1..MaxUpdates : /\ runs'[v] <= 1 /\ answers'[v] <= runs'[v]
                                 /\ runs'[v] > 0 => v <= sent' /\ v < NextUpdate'
    BY <1>0, <1>7, <2>1, <2>2, <2>3, <2>4, <2>5 DEF Handle, BotInv
  <2>7. \A i \in 1..Len(batch') : batch'[i] = NextUpdate' + i - 1
    BY SMTT(60), <1>0, <2>1, <2>2, <2>3, <2>4 DEF BotInv
  <2>8. bot' = "handle" => /\ offset' - 1 > backlog' /\ offset' - 1 \in 1..MaxUpdates
                           /\ runs'[offset' - 1] = 1 /\ answers'[offset' - 1] = 0
    <3>1. offset' - 1 = u
      BY <1>0, <2>2, <2>3
    <3>2. QED
      BY SMTT(60), <2>2, <2>3, <2>5, <3>1
  <2>9. NextUpdate' > backlog'
    BY <1>0, <2>2, <2>3, <2>4
  <2>10. QED
    BY <2>3, <2>6, <2>7, <2>8, <2>9 DEF BotInv
<1>8. CASE Reply
  <2>1. /\ offset - 1 \in 1..MaxUpdates /\ runs[offset - 1] = 1 /\ answers[offset - 1] = 0
        /\ NextUpdate > backlog /\ bot' = "poll"
    BY <1>8 DEF Reply, BotInv
  <2>2. /\ answers'[offset - 1] = 1
        /\ \A v \in 1..MaxUpdates : v # offset - 1 => answers'[v] = answers[v]
    BY <1>8, <2>1 DEF Reply
  <2>3. \A v \in 1..MaxUpdates : answers'[v] <= runs'[v]
    BY <1>8, <2>1, <2>2 DEF Reply, BotInv
  <2>4. QED
    BY <1>8, <2>1, <2>3 DEF Reply, BotInv, NextUpdate, FirstQueued
<1>9. CASE StopBot
  BY <1>9 DEF StopBot, BotInv
<1>10. CASE UNCHANGED botVars
  BY <1>10 DEF botVars, BotInv, NextUpdate, FirstQueued
<1>11. QED
  BY <1>1, <1>2, <1>3, <1>4, <1>5, <1>6, <1>7, <1>8, <1>9, <1>10 DEF BotNext, BotStep

\* The bot's invariant, for any number of updates, commands, restarts and
\* failed polls.
THEOREM BotAlways == BotSpec => [](BotShape /\ BotInv)
<1>1. BotInit => BotShape /\ BotInv
  <2> SUFFICES ASSUME BotInit PROVE BotShape /\ BotInv
    OBVIOUS
  <2>1. batch = << >> /\ batch \in Seq(1..sent) /\ Len(batch) = 0
    BY DEF BotInit
  <2>2. BotShape
    BY <2>1, BotAssumption DEF BotInit, BotShape
  <2>3. BotInv
    BY <2>1 DEF BotInit, BotInv
  <2>4. QED
    BY <2>2, <2>3
<1>2. BotShape /\ BotInv /\ [BotNext]_botVars => (BotShape /\ BotInv)'
  BY BotShapeStep, BotInvStep
<1>3. QED
  BY <1>1, <1>2, PTL DEF BotSpec

\* A lot is refreshed at most once per command, whatever polls fail, whenever
\* the process dies and comes back, and never for a command that was sent
\* before the bot started (bot.ts:73-87).
THEOREM CommandsRunOnceAlways == BotSpec => []CommandsRunOnce
<1>1. BotShape /\ BotInv => CommandsRunOnce
  BY DEF BotInv, CommandsRunOnce
<1>2. QED
  BY <1>1, BotAlways, PTL

\* The types of the bot: the offset never passes what was sent, so no update
\* that is still to come is confirmed, nor a batch asked for that cannot be
\* (bot.ts:217-241).
THEOREM BotTypes == BotSpec => []BotTypeOK
<1>1. BotShape => BotTypeOK
  BY DEF BotShape, BotTypeOK
<1>2. QED
  BY <1>1, BotAlways, PTL

-----------------------------------------------------------------------------
(* The retention cleanup. *)

\* When the cleanup goes on to its next statement, nothing is left of what the
\* last one applies to: a batch that is not full was all there was
\* (retention.ts:38-45).
THEOREM PassedIsCleanAlways == RetainSpec => PassedIsClean
<1>1. ASSUME [RetainNext]_retainVars,
             NEW i \in 1..Len(Steps), step = i, step' # i
      PROVE  Due(Steps[i])' = {}
  <2>1. DeleteBatch
    BY <1>1 DEF RetainNext, StartCleanup, AddRow, AgeRow, FinishRun, retainVars
  <2>2. PICK gone \in SUBSET Due(Steps[i]) :
          /\ Cardinality(gone) = Smaller(BatchSize, Cardinality(Due(Steps[i])))
          /\ row' = [r \in RowId |-> IF r \in gone THEN Absent ELSE row[r]]
          /\ ~Repeats(Cardinality(gone))
    BY <1>1, <2>1 DEF DeleteBatch
  <2>3. IsFiniteSet(Due(Steps[i])) /\ Cardinality(Due(Steps[i])) \in Nat
    <3>1. Due(Steps[i]) \subseteq RowId
      BY DEF Due
    <3>2. QED
      BY <3>1, FS_Subset, FS_CardinalityType, RetentionAssumption
  <2>4. Cardinality(gone) = Cardinality(Due(Steps[i]))
    BY <2>2, <2>3, RetentionAssumption DEF Smaller, Repeats
  <2>5. gone = Due(Steps[i])
    BY <2>2, <2>3, <2>4, FS_Subset
  <2>6. table' = table
    BY <2>1 DEF DeleteBatch
  <2>7. ASSUME NEW r \in Due(Steps[i])'
        PROVE  FALSE
    <3>1. r \in RowId /\ row'[r] # Absent
      BY <2>7 DEF Due
    <3>2. r \notin gone /\ row'[r] = row[r]
      BY <2>2, <3>1
    <3>3. r \in Due(Steps[i])
      BY <2>6, <2>7, <3>2 DEF Due
    <3>4. QED
      BY <2>5, <3>2, <3>3
  <2>8. QED
    BY <2>7
<1>2. [RetainNext]_retainVars =>
        [\A i \in 1..Len(Steps) : step = i /\ step' # i => Due(Steps[i])' = {}]_retainVars
  BY <1>1
<1>3. QED
  BY <1>2, PTL DEF RetainSpec, PassedIsClean

\* The step that comes next is one of the table, or the end.
LEMMA NextStepType ==
  ASSUME NEW i \in 0..Len(Steps)
  PROVE  NextStep(i) \in 1..8
<1> DEFINE rest == {j \in (i + 1)..Len(Steps) : Steps[j] \in enabled}
<1>1. Len(Steps) = 7
  BY DEF Steps
<1>2. rest \in SUBSET Nat /\ rest \subseteq 1..7
  BY <1>1
<1>3. CASE rest = {}
  BY <1>3 DEF NextStep
<1>4. CASE rest # {}
  <2>1. PICK j \in rest : \A k \in rest : j <= k
    <3> HIDE DEF rest
    <3> QED
      BY <1>2, <1>4, FirstOf
  <2>2. NextStep(i) \in rest
    <3>1. NextStep(i) = CHOOSE k \in rest : \A m \in rest : k <= m
      BY <1>4 DEF NextStep
    <3> HIDE DEF rest
    <3>2. QED
      BY <2>1, <3>1
  <2>3. QED
    BY <1>2, <2>2
<1>5. QED
  BY <1>3, <1>4

\* The types the proof needs.
RetainShape == RetainTypeOK /\ row = [r \in RowId |-> row[r]]

\* The types of the cleanup: a row that is deleted, added, aged or finished is
\* one of its table's, and a run is never past its retention while it goes on
\* (retention.ts:150-160).
THEOREM RetainTypes == RetainSpec => []RetainTypeOK
<1>1. RetainInit => RetainShape
  <2> SUFFICES ASSUME RetainInit PROVE RetainShape
    OBVIOUS
  <2>1. enabled \subseteq {Steps[i] : i \in 1..Len(Steps)}
    <3>1. Len(Steps) = 7 /\ Steps[2] = "orphanAttempts"
      BY DEF Steps
    <3>2. enabled = {Steps[i] : i \in 1..Len(Steps)} \/ enabled = {"orphanAttempts"}
      BY DEF RetainInit
    <3>3. {"orphanAttempts"} \subseteq {Steps[i] : i \in 1..Len(Steps)}
      BY <3>1
    <3>4. QED
      BY <3>2, <3>3
  <2>2. PICK t \in Tables :
          table = [r \in RowId |-> t] /\ row \in [RowId -> RowState(t) \cup {Absent}]
    BY DEF RetainInit
  <2>3. step \in 0..8
    BY DEF RetainInit
  <2>4. table \in [RowId -> Tables] /\ row = [r \in RowId |-> row[r]]
    BY <2>2
  <2>5. \A r \in RowId : row[r] \in RowState(table[r]) \cup {Absent}
    BY <2>2
  <2>6. QED
    BY <2>1, <2>3, <2>4, <2>5 DEF RetainShape, RetainTypeOK
<1>2. RetainShape /\ [RetainNext]_retainVars => RetainShape'
  <2> SUFFICES ASSUME RetainShape, [RetainNext]_retainVars PROVE RetainShape'
    OBVIOUS
  <2> USE DEF RetainShape, RetainTypeOK
  <2>0. Len(Steps) = 7 /\ \A i \in 0..Len(Steps) : NextStep(i) \in 0..8
    <3>1. Len(Steps) = 7
      BY DEF Steps
    <3>2. QED
      BY <3>1, NextStepType
  <2>1. CASE StartCleanup
    BY <2>0, <2>1 DEF StartCleanup
  <2>2. CASE DeleteBatch
    <3>1. step' \in 0..8
      BY <2>0, <2>2 DEF DeleteBatch
    <3>2. /\ row' = [r \in RowId |-> row'[r]]
          /\ \A r \in RowId : row'[r] \in RowState(table[r]) \cup {Absent}
      BY <2>2 DEF DeleteBatch
    <3>3. QED
      BY <2>2, <3>1, <3>2 DEF DeleteBatch
  <2>3. ASSUME NEW r \in RowId, AddRow(r) \/ AgeRow(r) \/ FinishRun(r)
        PROVE  RetainShape'
    <3>1. PICK v : row' = [row EXCEPT ![r] = v] /\ v \in RowState(table[r])
      BY <2>3 DEF AddRow, AgeRow, FinishRun, RowState
    <3>2. UNCHANGED <<table, enabled, step>>
      BY <2>3 DEF AddRow, AgeRow, FinishRun
    <3>3. /\ row' = [q \in RowId |-> row'[q]]
          /\ \A q \in RowId : row'[q] \in RowState(table[q]) \cup {Absent}
      BY <3>1
    <3>4. QED
      BY <3>2, <3>3
  <2>4. CASE UNCHANGED retainVars
    BY <2>4 DEF retainVars
  <2>5. QED
    BY <2>1, <2>2, <2>3, <2>4 DEF RetainNext
<1>3. RetainShape => RetainTypeOK
  BY DEF RetainShape
<1>4. QED
  BY <1>1, <1>2, <1>3, PTL DEF RetainSpec

-----------------------------------------------------------------------------
(* The proxy pool. *)

States == {"idle", "waiting", "trying", "ok", "retryable", "failed"}
FlightRow ==
  [url : {"none", DEFAULTURL, conf.url}, state : {"free", "running", "ok", "failed"},
   chosen : Seq(STRING)]

\* The types that the proofs need.
PoolShape ==
  /\ conf \in ProxyConf
  /\ flight \in [Flight -> FlightRow]
  /\ promise \in {0} \cup Flight
  /\ caller \in [Caller -> States]
  /\ on \in [Caller -> {0} \cup Flight]
  /\ routes = [c \in Caller |-> routes[c]]

\* Until its waiters have gone on, the pool is what the preflight selected.
\* Only requests try routes; a job awaits a preflight of its own url.
WaiterOf(c) ==
  /\ caller[c] = "waiting" =>
       /\ on[c] \in Flight /\ flight[on[c]].state # "free"
       /\ flight[on[c]].state = "ok" => pool = flight[on[c]].chosen
  /\ caller[c] = "trying" => c \in Request

ForcerOf(c) ==
  /\ caller[c] = "idle" => on[c] = 0
  /\ caller[c] = "waiting" => flight[on[c]].url = conf.url
  /\ caller[c] = "ok" /\ on[c] # 0 =>
       /\ on[c] \in Flight /\ flight[on[c]].state = "ok" /\ flight[on[c]].url = conf.url
       /\ routes[c] = IF flight[on[c]].chosen # << >> THEN flight[on[c]].chosen ELSE conf.list

PoolInv ==
  /\ PoolShape
  /\ PromiseUnderWay
  /\ \A f \in Flight : flight[f].chosen # NoPool
  /\ \A c \in Caller : WaiterOf(c)
  /\ \A c \in Forcer : ForcerOf(c)

\* A selection is of configured proxies, and no selection passes for null.
LEMMA Selection ==
  ASSUME conf \in ProxyConf, NEW healthy \in HealthyLists
  PROVE  FirstN(healthy, conf.topN) \in Seq(STRING) /\ FirstN(healthy, conf.topN) # NoPool
<1> DEFINE P == {conf.list[i] : i \in 1..Len(conf.list)}
<1>1. /\ conf.list \in Seq(STRING) /\ conf.topN \in Nat \ {0} /\ Len(conf.list) \in Nat
      /\ \A i \in 1..Len(conf.list) : conf.list[i] \notin {"direct", "null"} /\ conf.list[i] \in STRING
  BY ProxyAssumption
<1>2. P \subseteq STRING /\ "null" \notin P
  BY <1>1
<1>3. PICK n \in 0..Len(conf.list) : healthy \in [1..n -> P]
  <2>1. PICK m \in 0..Len(conf.list) :
          \E line \in [1..m -> 1..Len(conf.list)] : healthy = [i \in 1..m |-> conf.list[line[i]]]
    BY DEF HealthyLists
  <2>2. PICK line \in [1..m -> 1..Len(conf.list)] : healthy = [i \in 1..m |-> conf.list[line[i]]]
    BY <2>1
  <2> HIDE DEF P
  <2>3. \A i \in 1..m : conf.list[line[i]] \in P
    BY <2>2 DEF P
  <2>4. healthy \in [1..m -> P]
    BY <2>2, <2>3
  <2>5. QED
    BY <2>4
<1>4. healthy \in Seq(STRING) /\ Len(healthy) = n /\ n \in Nat
      /\ \A i \in 1..n : healthy[i] # "null"
  <2> HIDE DEF P
  <2>1. n \in Nat
    BY <1>1, <1>3
  <2>2. healthy \in [1..n -> STRING] /\ \A i \in 1..n : healthy[i] # "null"
    BY <1>2, <1>3
  <2>3. QED
    BY <2>1, <2>2
<1>5. PICK m \in 0..n : FirstN(healthy, conf.topN) = SubSeq(healthy, 1, m)
  BY <1>1, <1>4 DEF FirstN
<1>6. /\ SubSeq(healthy, 1, m) \in Seq(STRING) /\ Len(SubSeq(healthy, 1, m)) = m
      /\ \A i \in 1..m : SubSeq(healthy, 1, m)[i] = healthy[i]
  BY <1>4, <1>5
<1>7. SubSeq(healthy, 1, m) # NoPool
  <2>1. CASE m = 0
    BY <1>6, <2>1 DEF NoPool
  <2>2. CASE m > 0
    <3>1. 1 \in 1..m /\ 1 \in 1..n
      BY <1>4, <1>5, <2>2
    <3>2. SubSeq(healthy, 1, m)[1] # "null"
      BY <1>4, <1>6, <3>1
    <3>3. NoPool[1] = "null"
      BY DEF NoPool
    <3>4. QED
      BY <3>2, <3>3
  <2>3. QED
    BY <2>1, <2>2, <1>4
<1>8. QED
  BY <1>5, <1>6, <1>7

\* A caller that goes on has left the wait, and a job has the pool it was given.
LEMMA GoesOnEffect ==
  ASSUME PoolShape, NEW c \in Caller, NEW p, NEW k, GoesOn(c, p, k)
  PROVE  /\ caller' \in [Caller -> States] /\ routes' = [d \in Caller |-> routes'[d]]
         /\ \A d \in Caller : d # c => caller'[d] = caller[d] /\ routes'[d] = routes[d]
         /\ caller'[c] \in {"trying", "ok"}
         /\ c \in Forcer => caller'[c] = "ok" /\ routes'[c] = ActiveList(p)
         /\ caller'[c] = "trying" => c \in Request
BY ProxyAssumption DEF GoesOn, PoolShape, States

\* A preflight that is awaited is under way; the others are as they were.
LEMMA AwaitEffect ==
  ASSUME PoolShape, NEW c \in Caller, NEW url \in {"none", DEFAULTURL, conf.url},
         NEW current \in {0} \cup Flight, current # 0 => flight[current].state = "running",
         AwaitPreflight(c, url, current)
  PROVE  /\ flight' \in [Flight -> FlightRow] /\ caller' \in [Caller -> States]
         /\ on' \in [Caller -> {0} \cup Flight] /\ promise' \in Flight
         /\ flight'[promise'].state = "running"
         /\ \A f \in Flight : flight[f].state # "free" => flight'[f] = flight[f]
         /\ \A f \in Flight : flight'[f].chosen \in {flight[f].chosen, << >>}
         /\ caller'[c] = "waiting" /\ on'[c] = promise'
         /\ current = 0 => flight'[promise'].url = url
         /\ \A d \in Caller : d # c => caller'[d] = caller[d] /\ on'[d] = on[d]
<1>1. PICK f \in Flight :
        /\ IF current # 0
           THEN f = current /\ UNCHANGED flight
           ELSE /\ flight[f] = NoFlight
                /\ flight' = [flight EXCEPT ![f] = [NoFlight EXCEPT !.url = url,
                                                                   !.state = "running"]]
        /\ promise' = f
        /\ on' = [on EXCEPT ![c] = f]
        /\ caller' = [caller EXCEPT ![c] = "waiting"]
  BY DEF AwaitPreflight
<1>2. /\ [NoFlight EXCEPT !.url = url, !.state = "running"] \in FlightRow
      /\ [NoFlight EXCEPT !.url = url, !.state = "running"].state = "running"
      /\ [NoFlight EXCEPT !.url = url, !.state = "running"].url = url
      /\ [NoFlight EXCEPT !.url = url, !.state = "running"].chosen = << >>
      /\ NoFlight.state = "free"
  <2>1. << >> \in Seq(STRING)
    OBVIOUS
  <2>2. QED
    BY <2>1 DEF NoFlight, FlightRow
<1>3. CASE current # 0
  BY <1>1, <1>3 DEF PoolShape, States
<1>4. CASE current = 0
  BY <1>1, <1>2, <1>4 DEF PoolShape, States
<1>5. QED
  BY <1>3, <1>4

\* Everything a caller does up to its first await, whatever of the pool it
\* forgot before.
LEMMA PrepareStep ==
  ASSUME PoolInv, Quiet, NEW c \in Caller, caller[c] = "idle", conf' = conf,
         NEW url \in {DEFAULTURL, conf.url}, NEW p, NEW r, NEW t, NEW q \in {0, promise}, NEW k,
         c \in Forcer => url = conf.url /\ q = 0,
         Prepare(c, url, p, r, t, q, k)
  PROVE  PoolInv'
<1>0. PoolShape /\ PromiseUnderWay /\ url \in {"none", DEFAULTURL, conf.url}
      /\ (c \in Forcer => on[c] = 0) /\ q \in {0} \cup Flight
  BY DEF PoolInv, ForcerOf, PoolShape
<1>1. \A d \in Caller : caller[d] = "waiting" => on[d] \in Flight /\ flight[on[d]].state = "running"
  BY DEF Quiet, PoolInv, WaiterOf
<1>2. ASSUME Fails(c), promise' = q, UNCHANGED <<flight, on, routes>>
      PROVE  PoolInv'
  <2>1. caller'[c] = "failed" /\ \A d \in Caller : d # c => caller'[d] = caller[d]
    BY <1>0, <1>2 DEF Fails, PoolShape
  <2>2. PoolShape'
    BY <1>0, <1>2 DEF Fails, PoolShape, States, FlightRow
  <2>3. PromiseUnderWay'
    BY <1>0, <1>2 DEF PromiseUnderWay
  <2>4. \A d \in Caller : WaiterOf(d)'
    BY <1>1, <1>2, <2>1 DEF PoolInv, WaiterOf
  <2>5. \A d \in Forcer : ForcerOf(d)'
    BY <1>2, <2>1 DEF PoolInv, ForcerOf, Caller
  <2>6. QED
    BY <1>2, <2>2, <2>3, <2>4, <2>5 DEF PoolInv
<1>3. ASSUME NEW s, GoesOn(c, s, k), promise' = q, UNCHANGED <<flight, on>>
      PROVE  PoolInv'
  <2>1. /\ caller' \in [Caller -> States] /\ routes' = [d \in Caller |-> routes'[d]]
        /\ \A d \in Caller : d # c => caller'[d] = caller[d] /\ routes'[d] = routes[d]
        /\ caller'[c] \in {"trying", "ok"} /\ (caller'[c] = "trying" => c \in Request)
    BY <1>0, <1>3, GoesOnEffect
  <2>2. PoolShape'
    BY <1>0, <1>3, <2>1 DEF PoolShape, FlightRow
  <2>3. PromiseUnderWay'
    BY <1>0, <1>3 DEF PromiseUnderWay
  <2>4. \A d \in Caller : WaiterOf(d)'
    BY <1>1, <1>3, <2>1 DEF PoolInv, WaiterOf
  <2>5. \A d \in Forcer : ForcerOf(d)'
    BY <1>0, <1>3, <2>1 DEF PoolInv, ForcerOf, Caller
  <2>6. QED
    BY <1>3, <2>2, <2>3, <2>4, <2>5 DEF PoolInv
<1>4. ASSUME AwaitPreflight(c, url, q), UNCHANGED routes
      PROVE  PoolInv'
  <2>1. q # 0 => flight[q].state = "running"
    BY <1>0 DEF PromiseUnderWay
  <2>2. /\ flight' \in [Flight -> FlightRow] /\ caller' \in [Caller -> States]
        /\ on' \in [Caller -> {0} \cup Flight] /\ promise' \in Flight
        /\ flight'[promise'].state = "running"
        /\ \A f \in Flight : flight[f].state # "free" => flight'[f] = flight[f]
        /\ \A f \in Flight : flight'[f].chosen \in {flight[f].chosen, << >>}
        /\ caller'[c] = "waiting" /\ on'[c] = promise'
        /\ q = 0 => flight'[promise'].url = url
        /\ \A d \in Caller : d # c => caller'[d] = caller[d] /\ on'[d] = on[d]
    BY <1>0, <1>4, <2>1, AwaitEffect
  <2>3. PoolShape'
    BY <1>0, <1>4, <2>2 DEF PoolShape, FlightRow
  <2>4. PromiseUnderWay' /\ \A f \in Flight : flight'[f].chosen # NoPool
    <3>1. << >> # NoPool
      BY DEF NoPool
    <3>2. QED
      BY <2>2, <3>1 DEF PromiseUnderWay, PoolInv
  <2>5. \A d \in Caller : WaiterOf(d)'
    BY <1>1, <2>2 DEF PoolInv, WaiterOf
  <2>6. \A d \in Forcer : ForcerOf(d)'
    BY <1>1, <1>4, <2>2 DEF PoolInv, ForcerOf, Caller
  <2>7. QED
    BY <2>3, <2>4, <2>5, <2>6 DEF PoolInv
<1>5. QED
  BY <1>2, <1>3, <1>4 DEF Prepare

\* A preflight ends: its waiters find what it selected, or its error.
LEMMA EndPreflightStep ==
  ASSUME PoolInv, NEW f \in Flight, EndPreflight(f)
  PROVE  PoolInv'
<1>0. PoolShape /\ Quiet /\ flight[f].state = "running" /\ conf \in ProxyConf
  BY DEF PoolInv, EndPreflight, PoolShape
<1>1. PICK healthy \in HealthyLists, end \in {"ok", "failed"} :
        /\ flight' = [flight EXCEPT ![f].state = end,
                                    ![f].chosen = FirstN(healthy, conf.topN)]
        /\ end = "ok" => pool' = FirstN(healthy, conf.topN)
        /\ promise' = 0
  BY DEF EndPreflight, Forgets
<1>2. FirstN(healthy, conf.topN) \in Seq(STRING) /\ FirstN(healthy, conf.topN) # NoPool
  BY <1>0, Selection
<1> DEFINE sel == FirstN(healthy, conf.topN)
<1> HIDE DEF sel
<1>3. /\ flight' \in [Flight -> FlightRow]
      /\ flight'[f].state = end /\ flight'[f].chosen = sel /\ flight'[f].url = flight[f].url
      /\ \A g \in Flight : g # f => flight'[g] = flight[g]
  BY <1>0, <1>1, <1>2 DEF sel, PoolShape, FlightRow
<1>4. UNCHANGED <<conf, caller, on, routes>>
  BY DEF EndPreflight, callState
<1>5. PoolShape'
  BY <1>0, <1>1, <1>3, <1>4 DEF PoolShape, FlightRow
<1>6. PromiseUnderWay' /\ \A g \in Flight : flight'[g].chosen # NoPool
  BY <1>1, <1>2, <1>3 DEF PromiseUnderWay, PoolInv, sel
<1>7. \A c \in Caller : WaiterOf(c)'
  BY <1>0, <1>1, <1>3, <1>4 DEF PoolInv, WaiterOf, Quiet, sel
<1>8. \A c \in Forcer : ForcerOf(c)'
  <2> SUFFICES ASSUME NEW c \in Forcer PROVE ForcerOf(c)'
    OBVIOUS
  <2>1. c \in Caller /\ ForcerOf(c) /\ WaiterOf(c)
    BY DEF PoolInv, Caller
  <2>2. CASE caller[c] = "waiting"
    BY <1>3, <1>4, <2>1, <2>2 DEF ForcerOf, WaiterOf
  <2>3. CASE caller[c] # "waiting"
    BY <1>0, <1>3, <1>4, <2>1, <2>3 DEF ForcerOf
  <2>4. QED
    BY <2>2, <2>3
<1>9. QED
  BY <1>5, <1>6, <1>7, <1>8 DEF PoolInv

\* A waiter goes on, and a request tries its routes.
LEMMA CallerStep ==
  ASSUME PoolInv, NEW c \in Caller, Resume(c) \/ TryRoute(c)
  PROVE  PoolInv'
<1>0. PoolShape /\ WaiterOf(c) /\ UNCHANGED <<conf, poolState, flight>>
  BY DEF PoolInv, Resume, TryRoute
<1>1. PromiseUnderWay' /\ \A g \in Flight : flight'[g].chosen # NoPool
  BY <1>0 DEF PoolInv, PromiseUnderWay, poolState
<1>2. CASE Resume(c)
  <2>1. caller[c] = "waiting" /\ on[c] \in Flight /\ flight[on[c]].state \in {"ok", "failed"}
        /\ on' = on
    BY <1>0, <1>2 DEF Resume, WaiterOf, PoolShape, FlightRow
  <2>2. CASE flight[on[c]].state = "failed"
    <3>1. /\ caller' \in [Caller -> States] /\ caller'[c] = "failed" /\ routes' = routes
          /\ \A d \in Caller : d # c => caller'[d] = caller[d]
      BY <1>0, <1>2, <2>2 DEF Resume, Fails, PoolShape, States
    <3>2. PoolShape'
      BY <1>0, <2>1, <3>1 DEF PoolShape, FlightRow, poolState
    <3>3. \A d \in Caller : WaiterOf(d)'
      BY <1>0, <2>1, <3>1 DEF PoolInv, WaiterOf, poolState
    <3>4. \A d \in Forcer : ForcerOf(d)'
      BY <1>0, <2>1, <3>1 DEF PoolInv, ForcerOf, Caller
    <3>5. QED
      BY <1>1, <3>2, <3>3, <3>4 DEF PoolInv
  <2>3. CASE flight[on[c]].state = "ok"
    <3>1. GoesOn(c, pool, turn)
      BY <1>2, <2>3 DEF Resume
    <3>2. /\ caller' \in [Caller -> States] /\ routes' = [d \in Caller |-> routes'[d]]
          /\ \A d \in Caller : d # c => caller'[d] = caller[d] /\ routes'[d] = routes[d]
          /\ caller'[c] \in {"trying", "ok"} /\ (caller'[c] = "trying" => c \in Request)
          /\ c \in Forcer => routes'[c] = ActiveList(pool)
      BY <1>0, <3>1, GoesOnEffect
    <3>3. pool = flight[on[c]].chosen /\ pool # NoPool
      BY <1>0, <2>1, <2>3 DEF WaiterOf, PoolInv
    <3>4. c \in Forcer => routes'[c] = IF flight[on[c]].chosen # << >> THEN flight[on[c]].chosen
                                       ELSE conf.list
      BY <3>2, <3>3 DEF ActiveList
    <3>5. PoolShape'
      BY <1>0, <2>1, <3>2 DEF PoolShape, FlightRow, poolState
    <3>6. \A d \in Caller : WaiterOf(d)'
      BY <1>0, <2>1, <3>2 DEF PoolInv, WaiterOf, poolState
    <3>7. ASSUME NEW d \in Forcer
          PROVE  ForcerOf(d)'
      <4>1. CASE d = c
        BY <1>0, <2>1, <2>3, <3>2, <3>4, <3>7, <4>1 DEF PoolInv, ForcerOf
      <4>2. CASE d # c
        BY <1>0, <2>1, <3>2, <3>7, <4>2 DEF PoolInv, ForcerOf, Caller
      <4>3. QED
        BY <4>1, <4>2
    <3>8. QED
      BY <1>1, <3>5, <3>6, <3>7 DEF PoolInv
  <2>4. QED
    BY <2>1, <2>2, <2>3
<1>3. CASE TryRoute(c)
  <2>1. caller[c] = "trying" /\ c \in Request /\ c \notin Forcer /\ Quiet
    BY <1>0, <1>3, ProxyAssumption DEF TryRoute, WaiterOf
  <2>2. CASE UNCHANGED <<caller, on, routes>>
    BY <1>0, <1>1, <2>2 DEF PoolInv, PoolShape, FlightRow, WaiterOf, ForcerOf, poolState
  <2>3. ASSUME NEW how \in {"ok", "retryable", "failed"}, EndRequest(c, how)
        PROVE  PoolInv'
    <3>1. /\ caller' \in [Caller -> States] /\ routes' = [d \in Caller |-> routes'[d]]
          /\ on' \in [Caller -> {0} \cup Flight]
          /\ caller'[c] = how
          /\ \A d \in Caller : d # c =>
               caller'[d] = caller[d] /\ routes'[d] = routes[d] /\ on'[d] = on[d]
      BY <1>0, <2>3 DEF EndRequest, PoolShape, States
    <3>2. PoolShape'
      BY <1>0, <3>1 DEF PoolShape, FlightRow, poolState
    <3>3. \A d \in Caller : WaiterOf(d)'
      BY <1>0, <3>1 DEF PoolInv, WaiterOf, poolState
    <3>4. \A d \in Forcer : ForcerOf(d)'
      BY <1>0, <2>1, <3>1 DEF PoolInv, ForcerOf, Caller
    <3>5. QED
      BY <1>1, <3>2, <3>3, <3>4 DEF PoolInv
  <2>4. QED
    BY <1>3, <2>2, <2>3 DEF TryRoute
<1>4. QED
  BY <1>2, <1>3

\* The pool's invariant, for any number of requests, jobs and preflights.
THEOREM PoolAlways == PoolSpec => []PoolInv
<1>1. PoolInit => PoolInv
  <2> SUFFICES ASSUME PoolInit PROVE PoolInv
    OBVIOUS
  <2>1. NoFlight \in FlightRow /\ NoFlight.chosen # NoPool
    <3>1. << >> \in Seq(STRING) /\ << >> # NoPool
      BY DEF NoPool
    <3>2. QED
      BY <3>1 DEF NoFlight, FlightRow
  <2>2. PoolShape
    BY <2>1 DEF PoolInit, PoolShape, States
  <2>3. QED
    BY <2>1, <2>2 DEF PoolInit, PoolInv, PromiseUnderWay, WaiterOf, ForcerOf, Caller
<1>2. PoolInv /\ [PoolNext]_poolVars => PoolInv'
  <2> SUFFICES ASSUME PoolInv, [PoolNext]_poolVars PROVE PoolInv'
    OBVIOUS
  <2>1. ASSUME NEW c \in Caller, SendRequest(c)
        PROVE  PoolInv'
    <3>1. CASE conf.mode = "direct"
      <4>1. /\ GoesOn(c, pool, turn) /\ UNCHANGED <<poolState, flight, on, conf>>
            /\ caller[c] = "idle" /\ Quiet /\ c \notin Forcer /\ PoolShape
        BY <2>1, <3>1, ProxyAssumption DEF SendRequest, PoolInv
      <4>2. /\ caller' \in [Caller -> States] /\ routes' = [d \in Caller |-> routes'[d]]
            /\ \A d \in Caller : d # c => caller'[d] = caller[d] /\ routes'[d] = routes[d]
            /\ caller'[c] \in {"trying", "ok"} /\ (caller'[c] = "trying" => c \in Request)
        BY <4>1, GoesOnEffect
      <4>3. PoolShape'
        BY <4>1, <4>2 DEF PoolShape, FlightRow, poolState
      <4>4. \A d \in Caller : WaiterOf(d)'
        BY <4>1, <4>2 DEF PoolInv, WaiterOf, poolState
      <4>5. \A d \in Forcer : ForcerOf(d)'
        BY <4>1, <4>2 DEF PoolInv, ForcerOf, Caller
      <4>6. QED
        BY <4>1, <4>3, <4>4, <4>5 DEF PoolInv, PromiseUnderWay, poolState
    <3>2. CASE conf.mode # "direct"
      BY <2>1, <3>2, PrepareStep, ProxyAssumption DEF SendRequest
    <3>3. QED
      BY <3>1, <3>2
  <2>2. ASSUME NEW c \in Caller, ForcePreflight(c)
        PROVE  PoolInv'
    BY <2>2, PrepareStep DEF ForcePreflight
  <2>3. CASE PoolStep
    BY <2>3, EndPreflightStep, CallerStep DEF PoolStep
  <2>4. CASE UNCHANGED poolVars
    BY <2>4 DEF poolVars, PoolInv, PoolShape, FlightRow, PromiseUnderWay, WaiterOf, ForcerOf
  <2>5. QED
    BY <2>1, <2>2, <2>3, <2>4 DEF PoolNext
<1>3. QED
  BY <1>1, <1>2, PTL DEF PoolSpec

\* preflightPromise stands for a preflight under way, however many requests and
\* jobs drop, join and end preflights: no caller joins one that is over
\* (http-client.ts:649-651).
THEOREM PromiseUnderWayAlways == PoolSpec => []PromiseUnderWay
<1>1. PoolInv => PromiseUnderWay
  BY DEF PoolInv
<1>2. QED
  BY <1>1, PoolAlways, PTL

\* A job that forces a preflight goes on with the selection of that one, or
\* with all the configured proxies, whatever else was under way
\* (photo-cluster.ts:137-158, http-client.ts:600-607).
THEOREM ForcerGetsOwnSelectionAlways == PoolSpec => []ForcerGetsOwnSelection
<1>1. PoolInv => ForcerGetsOwnSelection
  BY DEF PoolInv, ForcerOf, ForcerGetsOwnSelection
<1>2. QED
  BY <1>1, PoolAlways, PTL

-----------------------------------------------------------------------------
(* The routes of a request. *)

\* Lines of the list in some order, none of them twice.
Picked(k, s) ==
  /\ s \in Seq(STRING) /\ Len(s) <= Len(k.list)
  /\ \E line \in [1..Len(s) -> 1..Len(k.list)] :
       Once(line) /\ \A i \in 1..Len(s) : s[i] = k.list[line[i]]

\* What a request tries with the configuration it has.
WellFormed(k, r) ==
  /\ r \in Seq(STRING \cup {Direct}) /\ r # << >>
  /\ Len(r) <= k.cap /\ Len(r) <= Len(k.list) + 1
  /\ \A i \in 1..Len(r) : r[i] = Direct \/ \E j \in 1..Len(k.list) : r[i] = k.list[j]
  /\ Once(k.list) => Once(r)
  /\ k.mode = "mixed" => r[Len(r)] = Direct
  /\ k.mode = "proxy" => \A i \in 1..Len(r) : r[i] # Direct

\* What env.ts lets a configuration be.
LEMMA ConfType ==
  ASSUME NEW k \in ProxyConf
  PROVE  /\ k.list \in Seq(STRING) /\ k.topN \in Nat \ {0} /\ k.cap \in Nat \ {0}
         /\ k.mode \in {"direct", "proxy", "mixed"} /\ Len(k.list) \in Nat
         /\ DOMAIN k.list = 1..Len(k.list)
         /\ \A i \in 1..Len(k.list) :
              k.list[i] \in STRING /\ k.list[i] \notin {"direct", "null"}
BY ProxyAssumption

\* Proxies are neither the direct route nor null, and none is there twice unless
\* it is configured twice.
LEMMA PickedIs ==
  ASSUME NEW k \in ProxyConf, NEW s, Picked(k, s)
  PROVE  /\ Len(s) \in Nat /\ DOMAIN s = 1..Len(s) /\ s # NoPool
         /\ \A i \in 1..Len(s) : /\ s[i] \in STRING /\ s[i] \notin {"direct", "null"}
                                 /\ \E j \in 1..Len(k.list) : s[i] = k.list[j]
         /\ Once(k.list) => Once(s)
<1>1. PICK line \in [1..Len(s) -> 1..Len(k.list)] :
        Once(line) /\ \A i \in 1..Len(s) : s[i] = k.list[line[i]]
  BY DEF Picked
<1>2. Len(s) \in Nat /\ DOMAIN s = 1..Len(s) /\ s \in Seq(STRING)
  BY DEF Picked
<1>3. \A i \in 1..Len(s) : /\ s[i] \in STRING /\ s[i] \notin {"direct", "null"}
                           /\ \E j \in 1..Len(k.list) : s[i] = k.list[j]
  BY <1>1, ConfType
<1>4. s # NoPool
  <2> SUFFICES ASSUME s = NoPool PROVE FALSE
    OBVIOUS
  <2>1. Len(s) = 1 /\ s[1] = "null"
    BY DEF NoPool
  <2>2. QED
    BY <1>3, <2>1
<1>5. ASSUME Once(k.list), NEW i \in 1..Len(s), NEW j \in 1..Len(s), s[i] = s[j]
      PROVE  i = j
  <2>1. line[i] \in DOMAIN k.list /\ line[j] \in DOMAIN k.list
        /\ k.list[line[i]] = k.list[line[j]]
    BY <1>1, <1>5, ConfType
  <2>2. line[i] = line[j]
    BY <1>5, <2>1 DEF Once
  <2>3. DOMAIN line = 1..Len(s)
    BY <1>1
  <2>4. QED
    BY <1>1, <1>5, <2>2, <2>3 DEF Once
<1>6. QED
  BY <1>2, <1>3, <1>4, <1>5 DEF Once

\* The configured list, nothing, and what a preflight finds healthy.
LEMMA PickedBase ==
  ASSUME NEW k \in ProxyConf
  PROVE  Picked(k, k.list) /\ Picked(k, << >>)
<1>1. Picked(k, k.list)
  <2> DEFINE line == [i \in 1..Len(k.list) |-> i]
  <2>1. line \in [1..Len(k.list) -> 1..Len(k.list)]
    OBVIOUS
  <2>2. Once(line) /\ \A i \in 1..Len(k.list) : k.list[i] = k.list[line[i]]
    BY DEF Once
  <2> HIDE DEF line
  <2>3. QED
    BY <2>1, <2>2, ConfType DEF Picked
<1>2. Picked(k, << >>)
  <2> DEFINE s == << >>
             line == [i \in 1..Len(s) |-> 1]
  <2>1. s \in Seq(STRING) /\ Len(s) = 0
    OBVIOUS
  <2>2. /\ line \in [1..Len(s) -> 1..Len(k.list)] /\ Once(line)
        /\ \A i \in 1..Len(s) : s[i] = k.list[line[i]]
    BY <2>1 DEF Once
  <2>3. Len(s) <= Len(k.list)
    BY <2>1, ConfType
  <2> HIDE DEF line, s
  <2>4. Picked(k, s)
    BY Zenon, <2>1, <2>2, <2>3 DEF Picked
  <2>5. QED
    BY <2>4 DEF s
<1>3. QED
  BY <1>1, <1>2

\* What a preflight finds healthy.
LEMMA PickedHealthy ==
  ASSUME conf \in ProxyConf, NEW h \in HealthyLists
  PROVE  Picked(conf, h)
<1>1. PICK n \in 0..Len(conf.list) :
        h \in {[i \in 1..n |-> conf.list[line[i]]] :
                 line \in {f \in [1..n -> 1..Len(conf.list)] : Once(f)}}
  BY DEF HealthyLists
<1>2. PICK line \in [1..n -> 1..Len(conf.list)] :
        Once(line) /\ h = [i \in 1..n |-> conf.list[line[i]]]
  BY <1>1
<1>3. n \in Nat /\ n <= Len(conf.list) /\ h \in [1..n -> STRING]
  BY <1>2, ConfType
<1>4. h \in Seq(STRING) /\ Len(h) = n
  BY <1>3
<1>5. QED
  BY <1>2, <1>3, <1>4 DEF Picked

\* The first of some proxies.
LEMMA PickedFirst ==
  ASSUME NEW k \in ProxyConf, NEW s, Picked(k, s), NEW n \in Nat
  PROVE  /\ Picked(k, FirstN(s, n))
         /\ Len(FirstN(s, n)) = IF n < Len(s) THEN n ELSE Len(s)
         /\ \A i \in 1..Len(FirstN(s, n)) : FirstN(s, n)[i] = s[i]
<1> DEFINE m == IF n < Len(s) THEN n ELSE Len(s)
           t == SubSeq(s, 1, m)
<1>1. PICK line \in [1..Len(s) -> 1..Len(k.list)] :
        Once(line) /\ \A i \in 1..Len(s) : s[i] = k.list[line[i]]
  BY DEF Picked
<1>2. m \in 0..Len(s) /\ Len(s) \in Nat /\ s \in Seq(STRING) /\ Len(s) <= Len(k.list)
  BY DEF Picked
<1>3. t \in Seq(STRING) /\ Len(t) = m /\ \A i \in 1..m : t[i] = s[i]
  <2> HIDE DEF m
  <2> QED
    BY <1>2
<1> HIDE DEF t, m
<1>4. Picked(k, t)
  <2> DEFINE start == [i \in 1..m |-> line[i]]
  <2>1. start \in [1..m -> 1..Len(k.list)] /\ DOMAIN start = 1..m
        /\ \A i \in 1..m : start[i] = line[i] /\ i \in DOMAIN line
    BY <1>1, <1>2
  <2> HIDE DEF start
  <2>2. Once(start)
    BY <1>1, <2>1 DEF Once
  <2>3. \A i \in 1..m : t[i] = k.list[start[i]]
    BY <1>1, <1>2, <1>3, <2>1
  <2>4. m <= Len(k.list)
    BY <1>2, ConfType
  <2>5. QED
    BY <1>3, <2>1, <2>2, <2>3, <2>4 DEF Picked
<1>5. FirstN(s, n) = t
  BY DEF FirstN, t, m
<1>6. QED
  BY <1>3, <1>4, <1>5 DEF m

\* A turn of a list of n meets each of its places once.
LEMMA TurnOnce ==
  ASSUME NEW n \in Nat \ {0}, NEW k \in Nat, NEW i \in 1..n, NEW j \in 1..n,
         (k + i - 1) % n = (k + j - 1) % n
  PROVE  i = j
<1> DEFINE a == k + i - 1
           b == k + j - 1
<1>1. a \in Nat /\ b \in Nat /\ a - b = i - j /\ a - b < n /\ b - a < n
  OBVIOUS
<1>2. a = n * (a \div n) + (a % n) /\ a \div n \in Int
  <2> HIDE DEF a
  <2> QED
    BY <1>1
<1>3. b = n * (b \div n) + (b % n) /\ b \div n \in Int
  <2> HIDE DEF b
  <2> QED
    BY <1>1
<1>4. a % n = b % n /\ a % n \in Int
  <2>1. a % n = b % n
    OBVIOUS
  <2> HIDE DEF a, b
  <2>2. QED
    BY <2>1, <1>1
<1> DEFINE d == (a \div n) - (b \div n)
<1>5. d \in Int /\ a - b = n * d
  <2> HIDE DEF a, b
  <2> QED
    BY <1>1, <1>2, <1>3, <1>4
<1> HIDE DEF a, b, d
<1>6. n * d < n /\ 0 - n < n * d
  BY <1>1, <1>5
<1>7. d = 0
  <2>1. d >= 1 => n * d >= n
    BY <1>5
  <2>2. d <= -1 => n * d <= 0 - n
    BY <1>5
  <2>3. QED
    BY <1>5, <1>6, <2>1, <2>2
<1>8. n * d = 0
  BY <1>7
<1>9. QED
  BY <1>1, <1>5, <1>8

\* The proxies from any of them on, and around.
LEMMA PickedRotated ==
  ASSUME NEW k \in ProxyConf, NEW s, Picked(k, s), s # << >>, NEW from \in Nat
  PROVE  Picked(k, Rotated(s, from)) /\ Len(Rotated(s, from)) = Len(s)
<1> DEFINE n == Len(s)
           place == [i \in 1..n |-> ((from + i - 1) % n) + 1]
           t == Rotated(s, from)
<1>1. PICK line \in [1..n -> 1..Len(k.list)] :
        Once(line) /\ \A i \in 1..n : s[i] = k.list[line[i]]
  BY DEF Picked
<1>2. n \in Nat \ {0} /\ s \in Seq(STRING) /\ n <= Len(k.list)
  BY DEF Picked
<1> HIDE DEF n
<1>3. /\ DOMAIN place = 1..n /\ \A i \in 1..n : place[i] \in 1..n
      /\ \A i, j \in 1..n : place[i] = place[j] => i = j
  <2>1. ASSUME NEW i \in 1..n
        PROVE  place[i] \in 1..n
    BY <1>2
  <2>2. ASSUME NEW i \in 1..n, NEW j \in 1..n, place[i] = place[j]
        PROVE  i = j
    <3>1. (from + i - 1) % n \in Int /\ (from + j - 1) % n \in Int
      BY <1>2
    <3>2. ((from + i - 1) % n) + 1 = ((from + j - 1) % n) + 1
      BY <2>2
    <3>3. (from + i - 1) % n = (from + j - 1) % n
      BY <3>1, <3>2
    <3>4. QED
      BY <1>2, <3>3, TurnOnce
  <2>3. QED
    BY <2>1, <2>2
<1>4. t = [i \in 1..n |-> s[place[i]]]
  BY DEF Rotated, n
<1> HIDE DEF place, t
<1>5. t \in Seq(STRING) /\ Len(t) = n
  <2>1. t \in [1..n -> STRING]
    BY <1>2, <1>3, <1>4 DEF n
  <2>2. QED
    BY <1>2, <1>4, <2>1
<1> DEFINE turned == [i \in 1..n |-> line[place[i]]]
<1>6. turned \in [1..n -> 1..Len(k.list)] /\ DOMAIN turned = 1..n
      /\ \A i \in 1..n : turned[i] = line[place[i]] /\ place[i] \in DOMAIN line
  BY <1>1, <1>3
<1> HIDE DEF turned
<1>7. Once(turned)
  BY <1>1, <1>3, <1>6 DEF Once
<1>8. \A i \in 1..n : t[i] = k.list[turned[i]]
  BY <1>1, <1>3, <1>4, <1>6
<1>9. Picked(k, t)
  BY <1>2, <1>5, <1>6, <1>7, <1>8 DEF Picked
<1>10. QED
  BY <1>5, <1>9 DEF t, n

\* A route more.
LEMMA OneMore ==
  ASSUME NEW S, NEW d \in S, NEW s \in Seq(S)
  PROVE  /\ s \o <<d>> \in Seq(S) /\ Len(s \o <<d>>) = Len(s) + 1
         /\ \A i \in 1..Len(s) : (s \o <<d>>)[i] = s[i]
         /\ (s \o <<d>>)[Len(s) + 1] = d
<1>1. s \o <<d>> = Append(s, d)
  OBVIOUS
<1>2. /\ Append(s, d) \in Seq(S) /\ Len(Append(s, d)) = Len(s) + 1
      /\ \A i \in 1..Len(s) : Append(s, d)[i] = s[i]
      /\ Append(s, d)[Len(s) + 1] = d
  OBVIOUS
<1>3. QED
  BY <1>1, <1>2

\* The prefixes of a sequence, one longer each.
LEMMA PrefixSteps ==
  ASSUME NEW S, NEW s \in Seq(S)
  PROVE  /\ SubSeq(s, 1, 0) = << >> /\ SubSeq(s, 1, Len(s)) = s
         /\ \A i \in 1..Len(s) : SubSeq(s, 1, i) = Append(SubSeq(s, 1, i - 1), s[i])
<1>1. SubSeq(s, 1, 0) = << >>
  OBVIOUS
<1>2. SubSeq(s, 1, Len(s)) = s
  BY SubSeqFull
<1>3. ASSUME NEW i \in 1..Len(s)
      PROVE  SubSeq(s, 1, i) = Append(SubSeq(s, 1, i - 1), s[i])
  OBVIOUS
<1>4. QED
  BY <1>1, <1>2, <1>3

\* Taking the direct route out gives the proxies back.
LEMMA ProxyOnlyIs ==
  ASSUME NEW k \in ProxyConf, NEW s, Picked(k, s)
  PROVE  ProxyOnly(s \o <<Direct>>) = s
<1> DEFINE r == s \o <<Direct>>
           n == Len(s)
           m == Len(r)
           Is(f) == f = [i \in 0..m |->
                           IF i = 0 THEN << >>
                           ELSE IF r[i] = Direct THEN f[i - 1] ELSE Append(f[i - 1], r[i])]
           prefix == [i \in 0..m |-> IF i = m THEN s ELSE SubSeq(s, 1, i)]
           keep == CHOOSE f : Is(f)
<1>1. s \in Seq(STRING) /\ n \in Nat /\ \A i \in 1..n : s[i] # Direct
  <2>1. \A i \in 1..Len(s) : s[i] # "direct"
    BY PickedIs
  <2>2. s \in Seq(STRING) /\ Len(s) \in Nat
    BY DEF Picked
  <2>3. QED
    BY <2>1, <2>2 DEF Direct
<1>2. m = n + 1 /\ r[m] = Direct /\ \A i \in 1..n : r[i] = s[i]
  <2>1. s \in Seq(STRING \cup {Direct}) /\ Direct \in STRING \cup {Direct}
    BY <1>1
  <2>2. QED
    BY <1>1, <2>1, OneMore
<1> HIDE DEF r, m, n
<1>3. Is(prefix)
  <2>1. ASSUME NEW i \in 0..m
        PROVE  prefix[i] = IF i = 0 THEN << >>
                           ELSE IF r[i] = Direct THEN prefix[i - 1]
                           ELSE Append(prefix[i - 1], r[i])
    <3>1. CASE i = 0
      BY <1>1, <1>2, <3>1, PrefixSteps
    <3>2. CASE i = m
      <4>1. prefix[m - 1] = SubSeq(s, 1, n) /\ prefix[m] = s /\ m # 0 /\ r[m] = Direct
        BY <1>1, <1>2
      <4>2. SubSeq(s, 1, n) = s
        BY <1>1, PrefixSteps DEF n
      <4> HIDE DEF prefix
      <4>3. QED
        BY <3>2, <4>1, <4>2
    <3>3. CASE i \in 1..n
      <4>1. r[i] = s[i] /\ s[i] # Direct /\ i # 0 /\ i # m /\ i - 1 # m
            /\ i - 1 \in 0..m
        BY <1>1, <1>2, <3>3
      <4>2. prefix[i] = SubSeq(s, 1, i) /\ prefix[i - 1] = SubSeq(s, 1, i - 1)
        BY <4>1
      <4>3. SubSeq(s, 1, i) = Append(SubSeq(s, 1, i - 1), s[i])
        BY <1>1, <3>3, PrefixSteps DEF n
      <4> HIDE DEF prefix
      <4>4. QED
        BY <4>1, <4>2, <4>3
    <3>4. QED
      BY <1>1, <1>2, <3>1, <3>2, <3>3
  <2> HIDE DEF keep
  <2>2. QED
    BY <2>1
<1>4. Is(keep)
  <2> HIDE DEF Is
  <2> QED
    BY <1>3
<1> HIDE DEF keep
<1>5. \A i \in 0..m : keep[i] = prefix[i]
  <2> DEFINE D == {i \in 0..m : keep[i] # prefix[i]}
  <2> SUFFICES ASSUME D # {} PROVE FALSE
    OBVIOUS
  <2>1. PICK i \in D : \A j \in D : i <= j
    <3>1. D \in SUBSET Nat
      OBVIOUS
    <3> HIDE DEF D
    <3>2. QED
      BY <3>1, FirstOf
  <2>2. i \in 0..m /\ keep[i] # prefix[i] /\ m \in Nat
    BY <1>1, <1>2, <2>1
  <2>3. /\ keep[i] = IF i = 0 THEN << >>
                     ELSE IF r[i] = Direct THEN keep[i - 1] ELSE Append(keep[i - 1], r[i])
        /\ prefix[i] = IF i = 0 THEN << >>
                       ELSE IF r[i] = Direct THEN prefix[i - 1] ELSE Append(prefix[i - 1], r[i])
    <3> HIDE DEF prefix
    <3> QED
      BY <1>3, <1>4, <2>2
  <2>4. i # 0 => keep[i - 1] = prefix[i - 1]
    <3> HIDE DEF prefix
    <3> SUFFICES ASSUME i # 0, keep[i - 1] # prefix[i - 1] PROVE FALSE
      OBVIOUS
    <3>1. i - 1 \in D /\ i - 1 < i
      BY <2>2
    <3>2. QED
      BY <2>1, <2>2, <3>1
  <2>5. QED
    BY <2>2, <2>3, <2>4
<1>6. m \in 0..m /\ prefix[m] = s
  BY <1>1, <1>2
<1>7. ProxyOnly(r) = keep[m]
  BY DEF ProxyOnly, keep, m
<1>8. QED
  BY <1>5, <1>6, <1>7 DEF r

\* Some proxies are routes of the proxy mode, and of the mixed mode with the
\* direct route behind them.
LEMMA RoutesOfProxies ==
  ASSUME NEW k \in ProxyConf, NEW s, Picked(k, s)
  PROVE  /\ k.mode = "proxy" /\ s # << >> /\ Len(s) <= k.cap => WellFormed(k, s)
         /\ k.mode = "mixed" /\ Len(s) + 1 <= k.cap => WellFormed(k, s \o <<Direct>>)
<1>1. /\ Len(s) \in Nat /\ DOMAIN s = 1..Len(s) /\ s \in Seq(STRING \cup {Direct})
      /\ s \in Seq(STRING) /\ Len(s) <= Len(k.list) /\ Len(k.list) \in Nat
      /\ Once(k.list) => Once(s)
  <2>1. s \in Seq(STRING) /\ Len(s) <= Len(k.list)
    BY DEF Picked
  <2>2. Len(s) \in Nat /\ DOMAIN s = 1..Len(s) /\ (Once(k.list) => Once(s))
    BY PickedIs
  <2>3. s \in Seq(STRING \cup {Direct})
    BY <2>1
  <2>4. QED
    BY <2>1, <2>2, <2>3, ConfType
<1>2. \A i \in 1..Len(s) : s[i] # Direct /\ \E j \in 1..Len(k.list) : s[i] = k.list[j]
  BY PickedIs DEF Direct
<1>3. ASSUME k.mode = "proxy", s # << >>, Len(s) <= k.cap
      PROVE  WellFormed(k, s)
  <2>1. Len(s) <= Len(k.list) + 1
    BY <1>1
  <2>2. \A i \in 1..Len(s) : s[i] = Direct \/ \E j \in 1..Len(k.list) : s[i] = k.list[j]
    BY <1>2
  <2>3. k.mode # "mixed" /\ \A i \in 1..Len(s) : s[i] # Direct
    BY <1>2, <1>3
  <2>4. QED
    BY Zenon, <1>1, <1>3, <2>1, <2>2, <2>3 DEF WellFormed
<1>4. ASSUME k.mode = "mixed", Len(s) + 1 <= k.cap
      PROVE  WellFormed(k, s \o <<Direct>>)
  <2> DEFINE r == s \o <<Direct>>
  <2>1. /\ r \in Seq(STRING \cup {Direct}) /\ Len(r) = Len(s) + 1
        /\ \A i \in 1..Len(s) : r[i] = s[i]
        /\ r[Len(s) + 1] = Direct
    BY <1>1, OneMore
  <2> HIDE DEF r
  <2>2. Len(r) \in Nat \ {0} /\ r # << >> /\ DOMAIN r = 1..(Len(s) + 1)
    BY <1>1, <2>1
  <2>3. \A i \in 1..Len(r) : r[i] = Direct \/ \E j \in 1..Len(k.list) : r[i] = k.list[j]
    <3> SUFFICES ASSUME NEW i \in 1..Len(r)
                 PROVE  r[i] = Direct \/ \E j \in 1..Len(k.list) : r[i] = k.list[j]
      OBVIOUS
    <3>1. i \in 1..Len(s) \/ i = Len(s) + 1
      BY <1>1, <2>1
    <3>2. QED
      BY <1>2, <2>1, <3>1
  <2>4. Once(s) => Once(r)
    BY <1>1, <1>2, <2>1, <2>2 DEF Once
  <2>5. WellFormed(k, r)
    BY <1>1, <1>4, <2>1, <2>2, <2>3, <2>4 DEF WellFormed
  <2>6. QED
    BY <2>5 DEF r
<1>5. QED
  BY <1>3, <1>4

\* The direct route alone.
LEMMA DirectOnly ==
  ASSUME NEW k \in ProxyConf, k.mode # "proxy"
  PROVE  WellFormed(k, <<Direct>>)
<1> DEFINE r == <<Direct>>
<1>1. r \in Seq(STRING \cup {Direct}) /\ Len(r) = 1 /\ r[1] = Direct /\ DOMAIN r = 1..1
  <2>1. << >> \in Seq(STRING \cup {Direct}) /\ Direct \in STRING \cup {Direct}
    OBVIOUS
  <2>2. << >> \o r = r
    OBVIOUS
  <2>3. QED
    OBVIOUS
<1>2. r # << >>
  OBVIOUS
<1> HIDE DEF r
<1>3. WellFormed(k, r)
  BY <1>1, <1>2, ConfType DEF WellFormed, Once
<1>4. QED
  BY <1>3 DEF r

\* A pool that was selected, or none, gives each request its routes.
LEMMA RouteOrderIs ==
  ASSUME conf \in ProxyConf, NEW p, p = NoPool \/ Picked(conf, p), NEW t \in Nat,
         conf.mode = "proxy" => conf.list # << >>
  PROVE  /\ Picked(conf, ActiveList(p))
         /\ WellFormed(conf, RouteOrder(p, t)) /\ NextTurn(p, t) \in Nat
<1> DEFINE list == ActiveList(p)
           all == Rotated(list, t)
<1>1. Picked(conf, list) /\ (list = << >> => conf.list = << >>)
  BY PickedBase DEF ActiveList
<1>2. Len(list) \in Nat /\ list \in Seq(STRING) /\ conf.cap \in Nat \ {0}
      /\ conf.mode \in {"direct", "proxy", "mixed"}
  BY <1>1, ConfType DEF Picked
<1> HIDE DEF list
<1>3. NextTurn(p, t) \in Nat
  <2>1. list # << >> => Len(list) \in Nat \ {0}
    BY <1>2
  <2>2. list # << >> => (t + 1) % Len(list) \in Nat
    BY <2>1
  <2>3. QED
    BY <2>2 DEF NextTurn, list
<1>4. CASE conf.mode = "direct" \/ list = << >>
  <2>1. RouteOrder(p, t) = <<Direct>> /\ conf.mode # "proxy"
    BY <1>1, <1>4 DEF RouteOrder, list
  <2>2. QED
    BY <1>1, <1>3, <2>1, DirectOnly DEF list
<1>5. CASE conf.mode # "direct" /\ list # << >>
  <2>1. Picked(conf, all) /\ Len(all) = Len(list) /\ Len(all) \in Nat \ {0}
        /\ all \in Seq(STRING)
    <3>1. Picked(conf, all) /\ Len(all) = Len(list)
      BY <1>1, <1>5, PickedRotated
    <3>2. QED
      BY <1>2, <1>5, <3>1 DEF Picked
  <2>2. RouteOrder(p, t) = Limited(all \o (IF conf.mode = "mixed" THEN <<Direct>> ELSE << >>))
    BY <1>5 DEF RouteOrder, list
  <2> HIDE DEF all
  <2>3. CASE conf.mode = "proxy"
    <3>1. RouteOrder(p, t) = FirstN(all, conf.cap)
      <4>1. all \o << >> = all
        BY <2>1, ConcatEmptySeq
      <4>2. QED
        BY <2>2, <2>3, <4>1 DEF Limited
    <3>2. /\ Picked(conf, FirstN(all, conf.cap)) /\ Len(FirstN(all, conf.cap)) \in Nat \ {0}
          /\ Len(FirstN(all, conf.cap)) <= conf.cap
      BY <1>2, <2>1, PickedFirst
    <3>3. FirstN(all, conf.cap) # << >>
      BY <3>2
    <3>4. QED
      BY <1>1, <1>3, <2>3, <3>1, <3>2, <3>3, RoutesOfProxies DEF list
  <2>4. CASE conf.mode = "mixed"
    <3> DEFINE r == all \o <<Direct>>
    <3>1. RouteOrder(p, t) = Limited(r)
      BY <2>2, <2>4
    <3>2. Len(r) = Len(all) + 1 /\ r \in Seq(STRING \cup {Direct})
      BY <2>1, OneMore
    <3>3. CASE Len(r) <= conf.cap
      <4>1. Limited(r) = SubSeq(r, 1, Len(r))
        <5> HIDE DEF r
        <5> QED
          BY <1>2, <3>2, <3>3, <2>1 DEF Limited, FirstN
      <4>2. SubSeq(r, 1, Len(r)) = r
        <5> HIDE DEF r
        <5> QED
          BY <3>2, PrefixSteps
      <4>3. WellFormed(conf, r)
        BY <2>1, <2>4, <3>2, <3>3, RoutesOfProxies
      <4>4. QED
        BY <1>1, <1>3, <3>1, <4>1, <4>2, <4>3 DEF list
    <3>4. CASE ~(Len(r) <= conf.cap)
      <4>1. Limited(r) = FirstN(all, conf.cap - 1) \o <<Direct>>
        <5>1. ProxyOnly(r) = all
          BY <2>1, ProxyOnlyIs
        <5> HIDE DEF r
        <5>2. QED
          BY <2>4, <3>4, <5>1 DEF Limited
      <4>2. /\ Picked(conf, FirstN(all, conf.cap - 1))
            /\ Len(FirstN(all, conf.cap - 1)) + 1 <= conf.cap
        <5>1. conf.cap - 1 \in Nat
          BY <1>2
        <5>2. QED
          BY <1>2, <2>1, <5>1, PickedFirst
      <4>3. WellFormed(conf, FirstN(all, conf.cap - 1) \o <<Direct>>)
        BY <2>4, <4>2, RoutesOfProxies
      <4>4. QED
        BY <1>1, <1>3, <3>1, <4>1, <4>3 DEF list
    <3>5. QED
      BY <3>3, <3>4
  <2>5. QED
    BY <1>2, <1>5, <2>3, <2>4
<1>6. QED
  BY <1>4, <1>5

\* Where a caller is, its routes are what it should try, and it has not tried
\* them all.
RoutesOf(c) ==
  /\ caller[c] = "waiting" => conf.mode # "direct" /\ conf.list # << >>
  /\ caller[c] = "trying" =>
       WellFormed(conf, routes[c]) /\ tried[c] < Retries * Len(routes[c])
  /\ caller[c] # "trying" => Picked(conf, routes[c]) /\ tried[c] = 0

\* What is selected are lines of the list, each once, so the routes of whoever
\* goes on are, too.
RouteInv ==
  /\ ready \in BOOLEAN /\ target \in {"none", DEFAULTURL, conf.url} /\ turn \in Nat
  /\ pool = NoPool \/ Picked(conf, pool)
  /\ \A f \in Flight : Picked(conf, flight[f].chosen)
  /\ tried \in [Caller -> Nat] /\ answered \in [Caller -> BOOLEAN]
  /\ \A c \in Caller : RoutesOf(c)

\* Who goes on has the routes of the pool as it stands.
LEMMA RoutesGoOn ==
  ASSUME PoolShape, RouteInv, NEW c \in Caller, caller[c] # "trying",
         NEW p, p = NoPool \/ Picked(conf, p), NEW t \in Nat, GoesOn(c, p, t),
         conf.mode = "proxy" => conf.list # << >>, UNCHANGED <<conf, tried>>
  PROVE  turn' \in Nat /\ \A d \in Caller : RoutesOf(d)'
<1>0. conf \in ProxyConf
  BY DEF PoolShape
<1>1. /\ Picked(conf, ActiveList(p))
      /\ WellFormed(conf, RouteOrder(p, t)) /\ NextTurn(p, t) \in Nat
  BY <1>0, RouteOrderIs
<1>2. /\ turn' \in {t, NextTurn(p, t)}
      /\ \A d \in Caller : d # c => caller'[d] = caller[d] /\ routes'[d] = routes[d]
      /\ c \in Request => caller'[c] = "trying" /\ routes'[c] = RouteOrder(p, t)
      /\ c \notin Request => caller'[c] = "ok" /\ routes'[c] = ActiveList(p)
  BY DEF GoesOn, PoolShape
<1>3. tried[c] = 0
  BY DEF RouteInv, RoutesOf
<1>4. ASSUME NEW d \in Caller
      PROVE  RoutesOf(d)'
  <2>1. CASE d # c
    BY <1>2, <2>1 DEF RouteInv, RoutesOf
  <2>2. CASE d = c /\ c \notin Request
    BY <1>1, <1>2, <1>3, <2>2 DEF RoutesOf
  <2>3. CASE d = c /\ c \in Request
    <3> DEFINE r == RouteOrder(p, t)
    <3>1. Len(r) \in Nat \ {0}
      <4>1. r \in Seq(STRING \cup {Direct}) /\ r # << >>
        BY <1>1 DEF WellFormed
      <4> HIDE DEF r
      <4>2. QED
        BY <4>1
    <3>2. 0 < Retries * Len(r)
      <4> HIDE DEF r
      <4> QED
        BY <3>1, ProxyAssumption
    <3>3. QED
      BY <1>1, <1>2, <1>3, <2>3, <3>2 DEF RoutesOf
  <2>4. QED
    BY <2>1, <2>2, <2>3
<1>5. QED
  BY <1>1, <1>2, <1>4

\* The routes while a caller prepares the pool.
LEMMA RoutesPrepare ==
  ASSUME PoolShape, RouteInv, NEW c \in Caller, caller[c] = "idle",
         NEW url \in {DEFAULTURL, conf.url}, NEW p \in {pool, NoPool}, NEW r \in BOOLEAN,
         NEW t \in {"none", target}, NEW q \in {0, promise}, NEW k \in Nat,
         Prepare(c, url, p, r, t, q, k), UNCHANGED <<conf, tried, answered>>
  PROVE  RouteInv'
<1>0. conf \in ProxyConf /\ (p = NoPool \/ Picked(conf, p)) /\ caller[c] # "trying"
      /\ RoutesOf(c)
  BY DEF PoolShape, RouteInv
<1>1. Picked(conf, << >>) /\ Picked(conf, FirstN(conf.list, conf.topN))
  <2>1. conf.topN \in Nat
    BY <1>0, ConfType
  <2>2. QED
    BY <1>0, <2>1, PickedBase, PickedFirst
<1>2. /\ ready' \in BOOLEAN /\ target' \in {"none", DEFAULTURL, conf'.url}
      /\ tried' \in [Caller -> Nat] /\ answered' \in [Caller -> BOOLEAN]
  BY DEF RouteInv, Prepare
<1>3. pool' = NoPool \/ Picked(conf, pool')
  BY <1>0, <1>1 DEF Prepare
<1>4. \A f \in Flight : Picked(conf, flight'[f].chosen)
  <2>1. CASE UNCHANGED flight
    BY <2>1 DEF RouteInv
  <2>2. CASE AwaitPreflight(c, url, q)
    <3>1. PICK f \in Flight :
            \/ UNCHANGED flight
            \/ flight' = [flight EXCEPT ![f] = [NoFlight EXCEPT !.url = url,
                                                               !.state = "running"]]
      BY <2>2 DEF AwaitPreflight
    <3>2. [NoFlight EXCEPT !.url = url, !.state = "running"].chosen = << >>
      BY DEF NoFlight
    <3>3. QED
      BY <1>1, <3>1, <3>2 DEF RouteInv, PoolShape
  <2>3. QED
    BY <2>1, <2>2 DEF Prepare
<1>5. turn' \in Nat /\ \A d \in Caller : RoutesOf(d)'
  <2>1. CASE \/ Fails(c) /\ turn' = k /\ UNCHANGED routes
             \/ /\ AwaitPreflight(c, url, q) /\ turn' = k /\ UNCHANGED routes
                /\ conf.mode # "direct" /\ conf.list # << >>
    <3>1. /\ caller'[c] # "trying"
          /\ caller'[c] = "waiting" => conf.mode # "direct" /\ conf.list # << >>
          /\ \A d \in Caller : d # c => caller'[d] = caller[d]
      BY <2>1 DEF Fails, AwaitPreflight, PoolShape
    <3>2. turn' = k /\ routes' = routes
      BY <2>1
    <3>3. QED
      BY <1>0, <3>1, <3>2 DEF RouteInv, RoutesOf
  <2>2. ASSUME NEW s, s = NoPool \/ Picked(conf, s), GoesOn(c, s, k),
               conf.mode = "proxy" => conf.list # << >>
        PROVE  turn' \in Nat /\ \A d \in Caller : RoutesOf(d)'
    BY <1>0, <2>2, RoutesGoOn
  <2>3. QED
    BY <1>0, <1>1, <2>1, <2>2 DEF Prepare
<1>6. QED
  BY <1>2, <1>3, <1>4, <1>5 DEF RouteInv

\* A preflight ends with a selection.
LEMMA RoutesEndPreflight ==
  ASSUME PoolShape, RouteInv, NEW f \in Flight, EndPreflight(f)
  PROVE  RouteInv'
<1>0. conf \in ProxyConf /\ UNCHANGED <<conf, turn, caller, routes, tried, answered>>
  BY DEF PoolShape, EndPreflight, callState
<1>1. PICK healthy \in HealthyLists, end \in {"ok", "failed"} :
        /\ flight' = [flight EXCEPT ![f].state = end,
                                    ![f].chosen = FirstN(healthy, conf.topN)]
        /\ \/ UNCHANGED <<pool, ready, target>>
           \/ /\ pool' = FirstN(healthy, conf.topN) /\ ready' = TRUE
              /\ target' = flight[f].url
  BY DEF EndPreflight
<1> DEFINE sel == FirstN(healthy, conf.topN)
<1>2. Picked(conf, sel)
  <2>1. conf.topN \in Nat
    BY <1>0, ConfType
  <2>2. QED
    BY <1>0, <2>1, PickedHealthy, PickedFirst
<1> HIDE DEF sel
<1>3. /\ flight'[f].chosen = sel
      /\ \A g \in Flight : g # f => flight'[g] = flight[g]
      /\ flight[f].url \in {"none", DEFAULTURL, conf.url}
  BY <1>1 DEF sel, PoolShape, FlightRow
<1>4. \A g \in Flight : Picked(conf, flight'[g].chosen)
  BY <1>2, <1>3 DEF RouteInv
<1>5. ready' \in BOOLEAN /\ target' \in {"none", DEFAULTURL, conf.url}
  BY <1>1, <1>3 DEF RouteInv
<1>6. pool' = NoPool \/ Picked(conf, pool')
  BY <1>1, <1>2 DEF RouteInv, sel
<1>7. \A c \in Caller : RoutesOf(c)'
  BY <1>0 DEF RouteInv, RoutesOf
<1>8. QED
  BY <1>0, <1>4, <1>5, <1>6, <1>7 DEF RouteInv

\* A waiter goes on, and a request tries a route.
LEMMA RoutesCaller ==
  ASSUME PoolShape, RouteInv, NEW c \in Caller, Resume(c) \/ TryRoute(c)
  PROVE  RouteInv'
<1>0. /\ UNCHANGED <<conf, pool, ready, target, flight>> /\ conf \in ProxyConf /\ RoutesOf(c)
      /\ tried[c] \in Nat /\ tried \in [Caller -> Nat] /\ answered \in [Caller -> BOOLEAN]
  BY DEF PoolShape, RouteInv, Resume, TryRoute, poolState
<1>1. ASSUME turn' \in Nat, tried' \in [Caller -> Nat], answered' \in [Caller -> BOOLEAN],
             \A d \in Caller : RoutesOf(d)'
      PROVE  RouteInv'
  BY <1>0, <1>1 DEF RouteInv
<1>2. CASE Resume(c)
  <2>1. caller[c] = "waiting" /\ UNCHANGED <<tried, answered>>
    BY <1>2 DEF Resume
  <2>2. CASE Fails(c) /\ UNCHANGED <<routes, turn>>
    <3>1. caller'[c] = "failed" /\ \A d \in Caller : d # c => caller'[d] = caller[d]
      BY <2>2 DEF Fails, PoolShape
    <3>2. \A d \in Caller : RoutesOf(d)'
      BY <1>0, <2>1, <2>2, <3>1 DEF RouteInv, RoutesOf
    <3>3. QED
      BY <1>0, <1>1, <2>1, <2>2, <3>2 DEF RouteInv
  <2>3. CASE GoesOn(c, pool, turn)
    <3>1. conf.list # << >> /\ turn \in Nat /\ (pool = NoPool \/ Picked(conf, pool))
      BY <1>0, <2>1 DEF RouteInv, RoutesOf
    <3>2. turn' \in Nat /\ \A d \in Caller : RoutesOf(d)'
      BY <1>0, <2>1, <2>3, <3>1, RoutesGoOn
    <3>3. QED
      BY <1>0, <1>1, <2>1, <3>2
  <2>4. QED
    BY <1>2, <2>2, <2>3 DEF Resume
<1>3. CASE TryRoute(c)
  <2>0. caller[c] = "trying" /\ turn' = turn /\ turn \in Nat
    BY <1>3 DEF TryRoute, RouteInv
  <2>1. ASSUME NEW how \in {"ok", "retryable", "failed"}, EndRequest(c, how)
        PROVE  RouteInv'
    <3>1. /\ tried' \in [Caller -> Nat] /\ answered' \in [Caller -> BOOLEAN]
          /\ tried'[c] = 0 /\ routes'[c] = << >> /\ caller'[c] = how
          /\ \A d \in Caller : d # c => /\ caller'[d] = caller[d] /\ routes'[d] = routes[d]
                                        /\ tried'[d] = tried[d]
      BY <1>0, <2>1 DEF EndRequest, PoolShape
    <3>2. Picked(conf, << >>)
      BY <1>0, PickedBase
    <3>3. \A d \in Caller : RoutesOf(d)'
      BY <1>0, <3>1, <3>2 DEF RouteInv, RoutesOf
    <3>4. QED
      BY <1>1, <2>0, <3>1, <3>3
  <2>2. ASSUME NEW a \in BOOLEAN, tried[c] + 1 # Retries * Len(routes[c]),
               answered' = [answered EXCEPT ![c] = a],
               tried' = [tried EXCEPT ![c] = @ + 1], UNCHANGED <<caller, on, routes>>
        PROVE  RouteInv'
    <3>1. /\ tried' \in [Caller -> Nat] /\ answered' \in [Caller -> BOOLEAN]
          /\ tried'[c] = tried[c] + 1
          /\ \A d \in Caller : d # c => tried'[d] = tried[d]
      BY <1>0, <2>2
    <3>2. Len(routes[c]) \in Nat
      <4>1. routes[c] \in Seq(STRING \cup {Direct})
        BY <1>0, <2>0 DEF RoutesOf, WellFormed
      <4>2. QED
        BY <4>1
    <3>3. tried'[c] < Retries * Len(routes[c])
      <4>1. Retries * Len(routes[c]) \in Nat
        BY <3>2, ProxyAssumption
      <4>2. tried[c] < Retries * Len(routes[c])
        BY <1>0, <2>0 DEF RoutesOf
      <4>3. QED
        BY <1>0, <2>2, <3>1, <4>1, <4>2
    <3>4. RoutesOf(c)'
      BY <1>0, <2>0, <2>2, <3>3 DEF RoutesOf
    <3>5. \A d \in Caller : d # c => RoutesOf(d)'
      BY <1>0, <2>2, <3>1 DEF RouteInv, RoutesOf
    <3>6. QED
      BY <1>1, <2>0, <3>1, <3>4, <3>5
  <2>3. QED
    <3>1. PICK o \in RouteOutcomes :
            IF o = "final" THEN EndRequest(c, "ok")
            ELSE IF tried[c] + 1 = Retries * Len(routes[c])
                 THEN EndRequest(c, IF answered[c] \/ o = "retryable" THEN "retryable"
                                    ELSE "failed")
                 ELSE /\ answered' = [answered EXCEPT ![c] = answered[c] \/ o = "retryable"]
                      /\ tried' = [tried EXCEPT ![c] = @ + 1]
                      /\ UNCHANGED <<caller, on, routes>>
      BY <1>3 DEF TryRoute
    <3>2. QED
      BY <1>0, <2>1, <2>2, <3>1
<1>4. QED
  BY <1>2, <1>3

\* The invariant of the routes, for any number of requests and jobs and every
\* configuration.
THEOREM RoutesAlways == PoolSpec => [](PoolInv /\ RouteInv)
<1>1. PoolInit => RouteInv
  <2> SUFFICES ASSUME PoolInit PROVE RouteInv
    OBVIOUS
  <2>1. conf \in ProxyConf /\ Picked(conf, << >>)
    BY PickedBase DEF PoolInit
  <2>2. \A f \in Flight : flight[f].chosen = << >>
    BY DEF PoolInit, NoFlight
  <2>3. \A c \in Caller : RoutesOf(c)
    BY <2>1 DEF PoolInit, RoutesOf
  <2>4. QED
    BY <2>1, <2>2, <2>3 DEF PoolInit, RouteInv
<1>2. PoolInv /\ RouteInv /\ [PoolNext]_poolVars => RouteInv'
  <2> SUFFICES ASSUME PoolInv, RouteInv, [PoolNext]_poolVars PROVE RouteInv'
    OBVIOUS
  <2>0. PoolShape /\ ready \in BOOLEAN /\ turn \in Nat
    BY DEF PoolInv, RouteInv
  <2>1. ASSUME NEW c \in Caller, SendRequest(c)
        PROVE  RouteInv'
    <3>1. /\ caller[c] = "idle" /\ UNCHANGED <<conf, tried, answered>>
      BY <2>1 DEF SendRequest
    <3>2. CASE conf.mode = "direct"
      <4>1. GoesOn(c, pool, turn) /\ UNCHANGED <<pool, ready, target, flight>>
        BY <2>1, <3>2 DEF SendRequest, poolState
      <4>2. pool = NoPool \/ Picked(conf, pool)
        BY DEF RouteInv
      <4>3. turn' \in Nat /\ \A d \in Caller : RoutesOf(d)'
        BY <2>0, <3>1, <3>2, <4>1, <4>2, RoutesGoOn
      <4>4. QED
        BY <3>1, <4>1, <4>3 DEF RouteInv
    <3>3. CASE conf.mode # "direct"
      <4>1. Prepare(c, DEFAULTURL, pool, ready, target, promise, turn)
        BY <2>1, <3>3 DEF SendRequest
      <4>2. QED
        BY <2>0, <3>1, <4>1, RoutesPrepare
    <3>4. QED
      BY <3>2, <3>3
  <2>2. ASSUME NEW c \in Caller, ForcePreflight(c)
        PROVE  RouteInv'
    BY <2>0, <2>2, RoutesPrepare DEF ForcePreflight
  <2>3. CASE PoolStep
    BY <2>0, <2>3, RoutesEndPreflight, RoutesCaller DEF PoolStep
  <2>4. CASE UNCHANGED poolVars
    BY <2>4 DEF poolVars, RouteInv, RoutesOf
  <2>5. QED
    BY <2>1, <2>2, <2>3, <2>4 DEF PoolNext
<1>3. QED
  BY <1>1, <1>2, PoolAlways, PTL DEF PoolSpec

\* What a request tries is well formed: for every list of proxies and every cap,
\* however the pool is replaced and turned by other requests and by jobs, no
\* more routes than the cap, none twice, and in mixed mode the direct one last
\* (http-client.ts:687-733, README.md:411, 450).
THEOREM RoutesWellFormedAlways == PoolSpec => []RoutesWellFormed
<1>1. RouteInv => RoutesWellFormed
  <2> SUFFICES ASSUME RouteInv, NEW c \in Request, caller[c] = "trying"
               PROVE  LET r == routes[c] IN
                      /\ r # << >> /\ Len(r) <= conf.cap
                      /\ Once(conf.list) => Once(r)
                      /\ conf.mode = "mixed" => r[Len(r)] = Direct
                      /\ conf.mode = "proxy" => \A i \in 1..Len(r) : r[i] # Direct
    BY DEF RoutesWellFormed
  <2>1. WellFormed(conf, routes[c])
    BY DEF RouteInv, RoutesOf, Caller
  <2>2. QED
    BY <2>1 DEF WellFormed
<1>2. QED
  BY <1>1, RoutesAlways, PTL

\* The sequences of the type invariant.
LEMMA RouteTypes ==
  ASSUME NEW k \in ProxyConf, NEW S,
         S = {k.list, NoPool, << >>} \cup
             UNION {[1..n -> {k.list[i] : i \in 1..Len(k.list)} \cup {Direct}] :
                    n \in 0..(Len(k.list) + 1)}
  PROVE  /\ \A s : Picked(k, s) => s \in S
         /\ \A r : WellFormed(k, r) => r \in S /\ Len(r) \in 0..(Len(k.list) + 1)
<1> DEFINE P == {k.list[i] : i \in 1..Len(k.list)} \cup {Direct}
           m == Len(k.list) + 1
<1>1. m \in Nat
  BY ConfType
<1>2. ASSUME NEW s, DOMAIN s = 1..Len(s), s = [i \in 1..Len(s) |-> s[i]], Len(s) \in 0..m,
             \A i \in 1..Len(s) : s[i] \in P
      PROVE  s \in S
  <2>1. s \in [1..Len(s) -> P]
    <3> HIDE DEF P
    <3> QED
      BY <1>2
  <2>2. [1..Len(s) -> P] \subseteq UNION {[1..n -> P] : n \in 0..m}
    <3> HIDE DEF P, m
    <3> QED
      BY <1>2
  <2>3. QED
    BY <2>1, <2>2
<1> HIDE DEF P
<1>3. ASSUME NEW s, Picked(k, s)
      PROVE  s \in S
  <2>1. /\ Len(s) \in Nat /\ DOMAIN s = 1..Len(s)
        /\ \A i \in 1..Len(s) : \E j \in 1..Len(k.list) : s[i] = k.list[j]
    BY <1>3, PickedIs
  <2>2. s \in Seq(STRING) /\ Len(s) <= Len(k.list)
    BY <1>3 DEF Picked
  <2>3. s = [i \in 1..Len(s) |-> s[i]]
    BY <2>2
  <2>4. Len(s) \in 0..m
    BY <1>1, <2>1, <2>2, ConfType
  <2>5. \A i \in 1..Len(s) : s[i] \in P
    BY <2>1 DEF P
  <2> HIDE DEF m
  <2>6. QED
    BY <1>2, <2>1, <2>3, <2>4, <2>5
<1>4. ASSUME NEW r, WellFormed(k, r)
      PROVE  r \in S /\ Len(r) \in 0..m
  <2>1. /\ r \in Seq(STRING \cup {Direct}) /\ Len(r) <= m
        /\ \A i \in 1..Len(r) : r[i] = Direct \/ \E j \in 1..Len(k.list) : r[i] = k.list[j]
    BY <1>4 DEF WellFormed
  <2>2. Len(r) \in Nat /\ DOMAIN r = 1..Len(r) /\ r = [i \in 1..Len(r) |-> r[i]]
    BY <2>1
  <2>3. Len(r) \in 0..m
    BY <1>1, <2>1, <2>2
  <2>4. \A i \in 1..Len(r) : r[i] \in P
    BY <2>1 DEF P
  <2> HIDE DEF m
  <2>5. QED
    BY <1>2, <2>2, <2>3, <2>4
<1>5. QED
  BY <1>3, <1>4

\* The types of the pool, with the bounds of what is selected and tried.
THEOREM PoolTypes == PoolSpec => []PoolTypeOK
<1>1. PoolInv /\ RouteInv => PoolTypeOK
  <2> SUFFICES ASSUME PoolInv, RouteInv PROVE PoolTypeOK
    OBVIOUS
  <2> DEFINE S == {conf.list, NoPool, << >>} \cup
                  UNION {[1..n -> {conf.list[i] : i \in 1..Len(conf.list)} \cup {Direct}] :
                         n \in 0..(Len(conf.list) + 1)}
             m == Len(conf.list) + 1
  <2>0. PoolShape /\ conf \in ProxyConf /\ m \in Nat
    BY ConfType DEF PoolInv, PoolShape
  <2>1. NoPool \in S
    OBVIOUS
  <2>2. /\ \A s : Picked(conf, s) => s \in S
        /\ \A r : WellFormed(conf, r) => r \in S /\ Len(r) \in 0..m
    BY <2>0, RouteTypes
  <2> HIDE DEF S, m
  <2>3. pool \in S /\ \A f \in Flight : flight[f].chosen \in S
    BY <2>1, <2>2 DEF RouteInv
  <2>4. \A c \in Caller : routes[c] \in S /\ tried[c] \in 0..Retries * m
    <3> SUFFICES ASSUME NEW c \in Caller PROVE routes[c] \in S /\ tried[c] \in 0..Retries * m
      OBVIOUS
    <3>1. RoutesOf(c) /\ tried[c] \in Nat /\ Retries \in Nat /\ m \in Nat
      BY <2>0, ProxyAssumption DEF RouteInv
    <3>2. CASE caller[c] = "trying"
      <4>1. WellFormed(conf, routes[c]) /\ tried[c] < Retries * Len(routes[c])
        BY <3>1, <3>2 DEF RoutesOf
      <4>2. routes[c] \in S /\ Len(routes[c]) \in 0..m
        BY <2>2, <4>1
      <4>3. Retries * Len(routes[c]) <= Retries * m /\ Retries * m \in Nat
            /\ Retries * Len(routes[c]) \in Nat
        BY <3>1, <4>2
      <4>4. QED
        BY <3>1, <4>1, <4>2, <4>3
    <3>3. CASE caller[c] # "trying"
      <4>1. Picked(conf, routes[c]) /\ tried[c] = 0
        BY <3>1, <3>3 DEF RoutesOf
      <4>2. Retries * m \in Nat
        BY <3>1
      <4>3. QED
        BY <2>2, <4>1, <4>2
    <3>4. QED
      BY <3>2, <3>3
  <2>5. /\ caller \in [Caller -> States] /\ on \in [Caller -> {0} \cup Flight]
        /\ promise \in {0} \cup Flight
        /\ \A f \in Flight : flight[f].state \in {"free", "running", "ok", "failed"}
    BY <2>0 DEF PoolShape, FlightRow
  <2>6. /\ ready \in BOOLEAN /\ target \in {"none", DEFAULTURL, conf.url} /\ turn \in Nat
        /\ answered \in [Caller -> BOOLEAN]
    BY DEF RouteInv
  <2>7. QED
    BY Zenon, <2>0, <2>3, <2>4, <2>5, <2>6 DEF PoolTypeOK, S, m, States
<1>2. QED
  BY <1>1, RoutesAlways, PTL

-----------------------------------------------------------------------------
(* The parts side by side. *)

\* Whichever part runs, each one does what it does alone: the specification of
\* the parts side by side implements each part's own.
THEOREM PartsAlone == FairSpec => JobsSpec /\ PoolSpec /\ BotSpec /\ MigrateSpec /\ RetainSpec
<1>1. Init => JobsInit /\ PoolInit /\ BotInit /\ MigrateInit /\ RetainInit
  BY DEF Init
<1>2. ASSUME [Next]_servicesVars
      PROVE  /\ [JobsNext]_jobVars /\ [PoolNext]_poolVars /\ [BotNext]_botVars
             /\ [MigrateNext]_migrateVars /\ [RetainNext]_retainVars
  BY <1>2 DEF Next, JobsRun, PoolRuns, BotRuns, MigrationsRun, RetentionRuns, servicesVars
<1>3. QED
  BY <1>1, <1>2, PTL DEF FairSpec, JobsSpec, PoolSpec, BotSpec, MigrateSpec, RetainSpec

\* The variables of whichever part runs keep their types, for every value of the
\* constants of all of them.
THEOREM ServicesTypes == FairSpec => []TypeOK
<1>1. JobsTypeOK /\ PoolTypeOK /\ BotTypeOK /\ MigrateTypeOK /\ RetainTypeOK => TypeOK
  BY DEF TypeOK
<1>2. MigrateSpec => []MigrateTypeOK
  <2>1. MigrateInit => MigrateTypeOK
    BY TypeInit
  <2>2. MigrateTypeOK /\ [MigrateNext]_migrateVars => MigrateTypeOK'
    BY TypeStep
  <2>3. QED
    BY <2>1, <2>2, PTL DEF MigrateSpec
<1>3. QED
  BY <1>1, <1>2, PartsAlone, JobsTypes, PoolTypes, BotTypes, RetainTypes, PTL
=============================================================================
