-------------------------- MODULE MCDetectorClients --------------------------
(***************************************************************************)
(* The programs of DetectorClients on two cluster shards, for TLC.         *)
(***************************************************************************)
EXTENDS DetectorClients

CONSTANTS node1, node2, node3, shard0, shard1

\* "shard_" + std::to_string(i) + ":5000"
MCShardAddr == [i \in 0..1 |-> IF i = 0 THEN shard0 ELSE shard1]

MCEx02Nodes == <<node1, node2, node3>>

=============================================================================
