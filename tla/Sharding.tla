------------------------------ MODULE Sharding ------------------------------
(***************************************************************************)
(* The three ShardingStrategy variants of distributed_examples.cpp         *)
(* (HashSharding, RoundRobinSharding, RangeSharding) as pure operators.    *)
(* The construction parameters (num_shards, total_keys) are operator       *)
(* arguments, so that DistributedIndex can use them with its constants and *)
(* MCSharding can check them over every small parameter value.             *)
(* Shard ids and keys are naturals, as size_t and vector_key_t are; the    *)
(* bounded inputs never come near 2^64, so no width is kept.               *)
(***************************************************************************)
EXTENDS Naturals

\* The least element of a non-empty set of naturals.
Least(S) == CHOOSE i \in S : \A j \in S : i <= j

(***************************************************************************)
(* HashSharding::shard_id: std::hash of an integer key is the key itself   *)
(* in libstdc++, so the shard is key % num_shards.                         *)
(***************************************************************************)
HashShardId(numShards, key) == key % numShards

(***************************************************************************)
(* RoundRobinSharding::shard_id: counter_.fetch_add(1) % num_shards; the   *)
(* key is ignored.  The caller passes the counter value it fetched.        *)
(***************************************************************************)
RoundRobinShardId(numShards, counter) == counter % numShards

(***************************************************************************)
(* RangeSharding's constructor: range i is [min_key, max_key) with         *)
(* min_key = i * keys_per_shard, and max_key = (i+1) * keys_per_shard      *)
(* except for the last range, which ends at total_keys.                    *)
(***************************************************************************)
KeysPerShard(numShards, totalKeys) == totalKeys \div numShards

RangeMin(numShards, totalKeys, i) == i * KeysPerShard(numShards, totalKeys)

\* Mutant: every range ends at (i+1) * keys_per_shard, the last one too.
RangeMaxNoRemainder(numShards, totalKeys, i) == (i + 1) * KeysPerShard(numShards, totalKeys)

RangeMax(numShards, totalKeys, i) ==
    IF i = numShards - 1 THEN totalKeys
                         ELSE (i + 1) * KeysPerShard(numShards, totalKeys)

InRange(numShards, totalKeys, i, key) ==
    /\ RangeMin(numShards, totalKeys, i) <= key
    /\ key < RangeMax(numShards, totalKeys, i)

(***************************************************************************)
(* RangeSharding::shard_id: the first range (in ascending order) holding   *)
(* the key; a key in no range goes to ranges_.back(), the last shard.      *)
(***************************************************************************)
\* Mutant: a key in no range falls back to shard 0.
RangeShardIdFallbackFirst(numShards, totalKeys, key) ==
    LET hits == {i \in 0..numShards - 1 : InRange(numShards, totalKeys, i, key)}
    IN  IF hits = {} THEN 0 ELSE Least(hits)

RangeShardId(numShards, totalKeys, key) ==
    LET hits == {i \in 0..numShards - 1 : InRange(numShards, totalKeys, i, key)}
    IN  IF hits = {} THEN numShards - 1 ELSE Least(hits)

(***************************************************************************)
(* target_shards(query, n_probe), identical in the three variants: the     *)
(* shards 0 .. min(n_probe, num_shards) - 1, in ascending order.  The      *)
(* query vector is ignored.                                                *)
(***************************************************************************)
TargetShards(numShards, nProbe) ==
    [i \in 1..(IF nProbe < numShards THEN nProbe ELSE numShards) |-> i - 1]

=============================================================================
