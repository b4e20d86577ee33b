\* Two searches racing in record_request_end; three requests on two shards, latencies 0 and 2 ms.
CONSTANTS
    NumShards = 2
    r1 = r1
    r2 = r2
    r3 = r3
    Requests <- MCRequests
    Latencies = {0, 2}
SPECIFICATION Spec
INVARIANT EmaCountsEveryRequest
