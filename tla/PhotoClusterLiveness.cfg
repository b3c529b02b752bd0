SPECIFICATION FairSpec
CONSTANTS
  p = p
  q = q
  v = v
  w = w
  Cluster = {p}
  Shard <- TwoShards
  MayCrash = TRUE
  Prune = Prune
  Nobody = Nobody
PROPERTIES
  ClusterEnds
