--------------------------- MODULE MCShardNetwork ---------------------------
(* Two shards over up to four nodes; the second shard is not placed on node 1 *)
(* when all four are known. *)
EXTENDS ShardNetwork

MCRank == [s \in Shards |-> [n \in Nodes |-> IF s = 0 THEN n ELSE 5 - n]]
=============================================================================
