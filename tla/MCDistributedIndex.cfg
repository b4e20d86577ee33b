\* Hash and round-robin sharding over 2 shards, 2 clients: placement (for
\* hash) and the merge; under round-robin a key added twice lands on two
\* shards, so a search sees it twice and the merge must deduplicate.
CONSTANTS
    NumShards = 2
    Keys = {0, 1, 2}
    c1 = c1  c2 = c2  v1 = v1  v2 = v2
    Vecs = {v1, v2}
    Dist <- MCDist
    Strategies = {"hash", "round_robin"}
    TotalKeys = 3
    KValues = {1, 2}
    NProbes = {0, 1}
    MaxBatch = 2
    Clients = {c1, c2}
    MaxCalls = 3
    EngineMayFail = FALSE
    IoMayFail = TRUE
    NoKey = NoKey
SPECIFICATION Spec
INVARIANT TypeOK
INVARIANT PlacementByStrategy
PROPERTY MergeReturnsTopK
