SPECIFICATION Spec
CONSTANTS
  p = p
  q = q
  v = v
  w = w
  Cluster <- TwoClusters
  Shard <- TwoShards
  MayCrash = TRUE
  Prune = Prune
  Nobody = Nobody
INVARIANTS
  TypeOK
  ShardExclusive
  SuccessIsComplete
SYMMETRY
  ClusterSymmetry
