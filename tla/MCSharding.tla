----------------------------- MODULE MCSharding -----------------------------
(***************************************************************************)
(* Checks the RangeSharding layout and its shard_id against a reference    *)
(* definition, for every num_shards, total_keys and key up to small        *)
(* bounds.  The state is the input being examined; each step moves to any  *)
(* other input, so TLC visits them all.                                    *)
(***************************************************************************)
EXTENDS Sharding

\* Bounds: up to 4 shards, total_keys up to 9 and keys up to 11, so
\* total_keys < num_shards (empty ranges), total_keys divisible and not divisible by num_shards, and keys
\* past total_keys (the fallback) all occur.
MaxShards == 4
MaxTotal  == 9
MaxKey    == MaxTotal + 2

VARIABLES numShards, totalKeys, key

vars == <<numShards, totalKeys, key>>

Inputs == [n : 1..MaxShards, t : 0..MaxTotal, k : 0..MaxKey]

Init == \E in \in Inputs : numShards = in.n /\ totalKeys = in.t /\ key = in.k

Next == \E in \in Inputs : numShards' = in.n /\ totalKeys' = in.t /\ key' = in.k

Spec == Init /\ [][Next]_vars

TypeOK ==
    /\ numShards \in 1..MaxShards
    /\ totalKeys \in 0..MaxTotal
    /\ key \in 0..MaxKey

(***************************************************************************)
(* Range completeness (spec section 8): every key in [0, total_keys) lies  *)
(* in exactly one of the ranges RangeSharding's constructor builds, so     *)
(* the ranges cover the key space with no gap and no overlap.             *)
(***************************************************************************)
RangesPartition ==
    key < totalKeys =>
        \E i \in 0..numShards - 1 :
            /\ InRange(numShards, totalKeys, i, key)
            /\ \A j \in 0..numShards - 1 \ {i} : ~InRange(numShards, totalKeys, j, key)

(***************************************************************************)
(* RangeSharding::shard_id agrees with the closed form: shard              *)
(* key \div keys_per_shard, capped at the last shard, and the last shard   *)
(* for every key when keys_per_shard is 0 or the key is past total_keys    *)
(* (the fallback of spec section 4.1).                                     *)
(***************************************************************************)
ReferenceRangeShard(n, t, k) ==
    LET kps == t \div n
    IN  IF kps = 0 \/ k >= t THEN n - 1
        ELSE IF k \div kps < n - 1 THEN k \div kps ELSE n - 1

RangeShardIdIsReference ==
    RangeShardId(numShards, totalKeys, key) = ReferenceRangeShard(numShards, totalKeys, key)

=============================================================================
