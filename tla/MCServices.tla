----------------------------- MODULE MCServices -----------------------------
(***************************************************************************)
(* The parts of the service around its photo and feed work, each on a small*)
(* instance.  They share no variable, so their product would only          *)
(* interleave independent steps: a behaviour is of one part, chosen in its *)
(* first state, and the run visits the graphs of the parts side by side.   *)
(***************************************************************************)
EXTENDS Jobs, ProxyPool, TelegramBot, Migrations, Retention

VARIABLE part     \* the part that runs

servicesVars == <<part, jobVars, poolVars, botVars, migrateVars, retainVars>>

-----------------------------------------------------------------------------
(* The constants. *)

OneOfEach ==
  [pipeline |-> "pipeline", ingest |-> "ingest", retry |-> "retry", sync |-> "sync",
   retention |-> "retention", manual |-> "manual"]
EachKind == DOMAIN OneOfEach
TwoShards == <<"photo_sync_worker_0", "photo_sync_worker_1">>

TwoProxies == <<"p", "q">>
Conf(m, list, n, least, strict, cap, url) ==
  [mode |-> m, list |-> list, preflight |-> TRUE, topN |-> n, minWorking |-> least,
   strict |-> strict, cap |-> cap, url |-> url]
NineConfs ==
  {Conf("mixed", TwoProxies, 2, 1, FALSE, 2, "photo"),
   Conf("mixed", TwoProxies, 1, 2, TRUE, 1, "photo"),
   Conf("proxy", TwoProxies, 1, 1, FALSE, 5, DEFAULTURL),
   Conf("proxy", TwoProxies, 2, 2, TRUE, 1, "photo"),
   [Conf("mixed", TwoProxies, 1, 1, FALSE, 5, "photo") EXCEPT !.preflight = FALSE],
   Conf("direct", TwoProxies, 1, 1, FALSE, 5, DEFAULTURL),
   Conf("proxy", <<"p", "p">>, 2, 1, FALSE, 5, DEFAULTURL),
   Conf("proxy", << >>, 1, 1, FALSE, 5, "photo"),
   Conf("mixed", << >>, 1, 1, FALSE, 5, "photo")}

SomeUpdates == {1, 3}
TwoFiles == << <<"plain", "ifnot">>, <<"checked", "plain">> >>

-----------------------------------------------------------------------------
(* The specification. *)

Parts == {"jobs", "pool", "bot", "migrations", "retention"}

\* What a part that does not run varies in is fixed.
Init ==
  /\ part \in Parts
  /\ JobsInit /\ (part = "jobs" \/ clustered)
  /\ PoolInit /\ (part = "pool" \/ conf.mode = "direct")
  /\ BotInit
  /\ MigrateInit
  /\ RetainInit /\ (part = "retention" \/
       (step = 0 /\ enabled = {"orphanAttempts"} /\ \A r \in RowId :
          table[r] = "lot_images" /\ row[r] = Absent))

JobsRun == part = "jobs" /\ JobsNext /\ UNCHANGED <<part, poolVars, botVars, migrateVars, retainVars>>
PoolRuns == part = "pool" /\ PoolNext /\ UNCHANGED <<part, jobVars, botVars, migrateVars, retainVars>>
BotRuns == part = "bot" /\ BotNext /\ UNCHANGED <<part, jobVars, poolVars, migrateVars, retainVars>>
MigrationsRun ==
  part = "migrations" /\ MigrateNext /\ UNCHANGED <<part, jobVars, poolVars, botVars, retainVars>>
RetentionRuns ==
  part = "retention" /\ RetainNext /\ UNCHANGED <<part, jobVars, poolVars, botVars, migrateVars>>

Next == JobsRun \/ PoolRuns \/ BotRuns \/ MigrationsRun \/ RetentionRuns

FairSpec ==
  Init /\ [][Next]_servicesVars /\ WF_botVars(part = "bot" /\ BotStep)

-----------------------------------------------------------------------------

\* The variables of the part that runs keep their types.
TypeOK ==
  /\ part = "jobs" => JobsTypeOK
  /\ part = "pool" => PoolTypeOK
  /\ part = "bot" => BotTypeOK
  /\ part = "migrations" => MigrateTypeOK
  /\ part = "retention" => RetainTypeOK
=============================================================================
