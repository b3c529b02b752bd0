SPECIFICATION Spec
CONSTANTS
  a = a
  b = b
  u = u
  v = v
  Lot <- TwoLots
  Url <- TwoUrls
  Feeds <- SomeFeeds
  NoLot = NoLot
  BatchSize = 2
  MaxRows = 3
  Prune = TRUE
  MaxInvalidRows = 1
  MaxInvalidPercent = 50
  MaxAttempts = 2
PROPERTIES
  RetriesNetworkErrorsOnly
