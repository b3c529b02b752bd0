SPECIFICATION Spec
CONSTANTS
  a = a
  b = b
  x = x
  y = y
  Lot <- TwoLots
  Image <- TwoImages
  Run = {r1}
  Seat = {1}
  BatchSize = 2
  MmemberLimit = 1
  MinAttempts = 1
  MayReject = FALSE
  NoRun = NoRun
  NoLot = NoLot
PROPERTIES
  KeepsGoodImages
