SPECIFICATION FairSpec
CONSTANTS
  s1 = s1
  s2 = s2
  gate = gate
  worker = worker
  Session <- TwoSessions
  Name <- TwoNames
  Request <- Pair
  NoOwner = NoOwner
  TTL = 1
  RenewEvery = 1
  Delay = 0
  Prompt = FALSE
  MaxErrors = 0
INVARIANTS
  TypeOK
  LeaseIsRow
  LeaseMutex
  RefusedHoldsNothing
PROPERTIES
  ImplementsLeaseService
  Terminates
