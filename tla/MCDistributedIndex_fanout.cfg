CONSTANTS
    NumShards = 2
    Keys = {0, 1}
    c1 = c1  c2 = c2  v1 = v1  v2 = v2
    Vecs = {v1, v2}
    Dist <- MCDist
    Strategies = {"hash"}
    TotalKeys = 2
    KValues = {1, 2}
    NProbes = {0}
    MaxBatch = 2
    Clients = {c1}
    MaxCalls = 3
    EngineMayFail = FALSE
    IoMayFail = FALSE
    NoKey = NoKey
SPECIFICATION Spec
PROPERTY FanOutCoversTargets
