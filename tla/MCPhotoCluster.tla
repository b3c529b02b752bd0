--------------------------- MODULE MCPhotoCluster ---------------------------
(* PhotoCluster with one or two clusters of two workers.                    *)
EXTENDS PhotoCluster, TLC

CONSTANTS p, q, v, w

TwoClusters == {p, q}
TwoShards == {v, w}

\* Clusters and shards are interchangeable; only for runs of invariants.
ClusterSymmetry == Permutations(Cluster) \cup Permutations(Shard)
=============================================================================
