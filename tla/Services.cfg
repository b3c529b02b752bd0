SPECIFICATION FairSpec
CONSTANTS
  Job <- EachKind
  Kind <- OneOfEach
  WorkerLocks <- TwoShards
  MaxStarted = 2
  MaxCrashes = 1
  Request = {"r1", "r2"}
  Forcer = {"job"}
  ProxyConf <- NineConfs
  Retries = 1
  MaxFlights = 3
  Commands <- SomeUpdates
  MaxUpdates = 4
  Limit = 2
  MaxStarts = 2
  Migrator = {"a", "b"}
  File <- TwoFiles
  MaxRuns = 2
  RowId = {"x", "y", "z"}
  BatchSize = 2
INVARIANTS
  TypeOK
  
  
  SomebodyGetsThrough
  
  RoutesWellFormed
  
  PromiseUnderWay
  CommandsRunOnce
  RecordedIsComplete
  RerunHeals
PROPERTIES
  PassedIsClean
  LiveCommandsAnswered
CHECK_DEADLOCK FALSE
