SPECIFICATION Spec
CONSTANTS
  s1 = s1
  s2 = s2
  gate = gate
  worker = worker
  Session <- TwoSessions
  Name <- TwoNames
  Request <- SameOrder
  NoOwner = NoOwner
  TTL = 7
  RenewEvery = 2
  Delay = 1
  Prompt = TRUE
  MaxErrors = 0
INVARIANTS
  ReleasedOnReturn
