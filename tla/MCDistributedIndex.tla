------------------------- MODULE MCDistributedIndex -------------------------
(***************************************************************************)
(* Small instances of DistributedIndex for TLC.                            *)
(***************************************************************************)
EXTENDS DistributedIndex

CONSTANTS c1, c2, v1, v2

\* Two vectors at distances 1 and 2 from the query: ties and strict order.
MCDist == [v \in {v1, v2} |-> IF v = v1 THEN 1 ELSE 2]


=============================================================================
