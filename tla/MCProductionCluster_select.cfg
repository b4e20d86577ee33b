\* select_shard's scan against concurrent record_request_start/end; three requests on two shards, latencies 0 and 2 ms.
CONSTANTS
    NumShards = 2
    r1 = r1
    r2 = r2
    r3 = r3
    Requests <- MCRequests
    Latencies = {0, 2}
SPECIFICATION Spec
PROPERTY SelectIsLeastLoaded
