SPECIFICATION FairSpec
CONSTANTS
  a = a
  b = b
  x = x
  y = y
  Lot <- TwoLots
  Image <- TwoImages
  Run = {r1}
  Seat = {1, 2}
  BatchSize = 2
  MmemberLimit = 1
  MinAttempts = 1
  MayReject = TRUE
  NoRun = NoRun
  NoLot = NoLot
INVARIANTS
  TypeOK
  OkHasImages
  
  CountsEveryCandidate
  MmemberBounded
PROPERTIES
  KeepsSomeImage
  RunEnds
  HalfStoredHeals
