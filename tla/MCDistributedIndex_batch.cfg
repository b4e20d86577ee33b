\* One client, hash sharding, an engine that only refuses duplicate keys:
\* an add_batch re-adding a key with another vector is refused on its shard.
CONSTANTS
    NumShards = 2
    Keys = {0, 1}
    c1 = c1  c2 = c2  v1 = v1  v2 = v2
    Vecs = {v1, v2}
    Dist <- MCDist
    Strategies = {"hash"}
    TotalKeys = 2
    KValues = {1}
    NProbes = {0}
    MaxBatch = 1
    Clients = {c1}
    MaxCalls = 2
    EngineMayFail = FALSE
    IoMayFail = FALSE
    NoKey = NoKey
SPECIFICATION Spec
PROPERTY AddBatchReportsFailure
