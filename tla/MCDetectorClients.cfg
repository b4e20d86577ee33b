\* example_02 on its three nodes and the cluster of example_05 on two shards
\* with two searches.  Ticks of 500 ms: the detector sleeps 2 ticks; the
\* clock stops at 14 ticks, past the 11 that example_02 sleeps in total.
CONSTANTS
    node1 = node1  node2 = node2  node3 = node3  shard0 = shard0  shard1 = shard1
    Addrs = {node1, node2, node3, shard0, shard1}
    Timeouts = {2, 6}
    Period = 2
    MaxTime = 14
    NumShards = 2
    NSearches = 2
    Latencies = {1}
    ShardAddr <- MCShardAddr
    Ex02Nodes <- MCEx02Nodes
INIT ClientInit
NEXT ClientNext
INVARIANT HealthyNodesStayAlive
