------------------------ MODULE MCProductionCluster ------------------------
(* ProductionCluster with two shards and three concurrent requests.        *)
EXTENDS ProductionCluster

CONSTANTS r1, r2, r3

MCRequests == {r1, r2, r3}

=============================================================================
