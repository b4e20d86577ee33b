---------------------------- MODULE ShardingProofs ----------------------------
(***************************************************************************)
(* Proofs about RangeSharding (Sharding.tla) for every num_shards > 0,     *)
(* total_keys and key, where MCSharding checks them up to 4 shards and 11  *)
(* keys.  The argument is arithmetic on keys_per_shard = t \div n: with    *)
(* kps > 0 the slices [j*kps, (j+1)*kps) are disjoint and the one holding *)
(* k is j = k \div kps; the last range stretches from (n-1)*kps, which is *)
(* at most t, up to t; with kps = 0 every range but the last is empty.     *)
(***************************************************************************)
EXTENDS MCSharding, TLAPS

\* The range a key below total_keys belongs to.
Home(n, t, k) ==
    IF t \div n = 0 THEN n - 1
    ELSE IF k \div (t \div n) < n - 1 THEN k \div (t \div n) ELSE n - 1

\* Multiplying by a natural keeps the order of naturals.
LEMMA MulMono ==
    ASSUME NEW a \in Nat, NEW b \in Nat, NEW c \in Nat, a <= b
    PROVE  a * c <= b * c
BY SMT

\* k \div kps is the slice of width kps that holds k.
LEMMA DivSlice ==
    ASSUME NEW kps \in Nat \ {0}, NEW k \in Nat
    PROVE  /\ k \div kps \in Nat
           /\ (k \div kps) * kps <= k
           /\ k < (k \div kps + 1) * kps
BY SMT

\* ... and the only one.
LEMMA SliceUnique ==
    ASSUME NEW kps \in Nat \ {0}, NEW k \in Nat, NEW j \in Nat,
           j * kps <= k, k < (j + 1) * kps
    PROVE  j = k \div kps
<1> DEFINE q == k \div kps
<1>1. q \in Nat /\ q * kps <= k /\ k < (q + 1) * kps
  BY DivSlice
<1>2. CASE j < q
  <2>1. (j + 1) * kps <= q * kps
    BY <1>1, <1>2, MulMono
  <2>. QED  BY <1>1, <2>1
<1>3. CASE q < j
  <2>1. (q + 1) * kps <= j * kps
    BY <1>1, <1>3, MulMono
  <2>. QED  BY <1>1, <2>1
<1>. QED
  BY <1>1, <1>2, <1>3

\* The ranges end no later than total_keys: n * kps <= t.
LEMMA LastStart ==
    ASSUME NEW n \in Nat \ {0}, NEW t \in Nat
    PROVE  /\ t \div n \in Nat
           /\ n * (t \div n) <= t
BY SMT

\* A key below total_keys lies in its Home range.
LEMMA HomeInRange ==
    ASSUME NEW n \in Nat \ {0}, NEW t \in Nat, NEW k \in Nat, k < t
    PROVE  /\ Home(n, t, k) \in 0..n - 1
           /\ InRange(n, t, Home(n, t, k), k)
<1> DEFINE kps == t \div n
           q == k \div kps
<1>1. kps \in Nat
  BY LastStart
<1>2. CASE kps = 0
  BY <1>2 DEF Home, InRange, RangeMin, RangeMax, KeysPerShard
<1>3. CASE kps # 0 /\ q < n - 1
  <2>1. q \in Nat /\ q * kps <= k /\ k < (q + 1) * kps
    BY <1>1, <1>3, DivSlice
  <2>. QED  BY <1>3, <2>1 DEF Home, InRange, RangeMin, RangeMax, KeysPerShard
<1>4. CASE kps # 0 /\ ~(q < n - 1)
  <2>1. q \in Nat /\ q * kps <= k
    BY <1>1, <1>4, DivSlice
  <2>2. (n - 1) * kps <= q * kps
    BY <1>1, <1>4, <2>1, MulMono
  <2>. QED  BY <1>4, <2>1, <2>2 DEF Home, InRange, RangeMin, RangeMax, KeysPerShard
<1>. QED
  BY <1>2, <1>3, <1>4

\* No other range holds it.
LEMMA OnlyHome ==
    ASSUME NEW n \in Nat \ {0}, NEW t \in Nat, NEW k \in Nat, k < t,
           NEW j \in 0..n - 1, InRange(n, t, j, k)
    PROVE  j = Home(n, t, k)
<1> DEFINE kps == t \div n
           q == k \div kps
<1>1. kps \in Nat
  BY LastStart
<1>2. CASE kps = 0
  BY <1>2 DEF Home, InRange, RangeMin, RangeMax, KeysPerShard
<1>3. CASE kps # 0 /\ j < n - 1
  <2>1. j * kps <= k /\ k < (j + 1) * kps
    BY <1>3 DEF InRange, RangeMin, RangeMax, KeysPerShard
  <2>2. j = q
    <3>1. j \in Nat /\ kps \in Nat \ {0}
      BY <1>1, <1>3
    <3>. QED  BY <2>1, <3>1, SliceUnique
  <2>. QED  BY <1>3, <2>2 DEF Home
<1>4. CASE kps # 0 /\ j = n - 1
  <2>1. (n - 1) * kps <= k
    BY <1>4 DEF InRange, RangeMin, KeysPerShard
  <2>2. q \in Nat /\ k < (q + 1) * kps
    BY <1>1, <1>4, DivSlice
  <2>3. ~(q < n - 1)
    <3>. SUFFICES ASSUME q < n - 1 PROVE FALSE
      OBVIOUS
    <3>1. (q + 1) * kps <= (n - 1) * kps
      BY <1>1, <2>2, MulMono
    <3>. QED  BY <2>1, <2>2, <3>1
  <2>. QED  BY <1>4, <2>3 DEF Home
<1>. QED
  BY <1>2, <1>3, <1>4

\* A key at or past total_keys lies in no range (RangeSharding::shard_id's
\* fallback case).
LEMMA NoRangePast ==
    ASSUME NEW n \in Nat \ {0}, NEW t \in Nat, NEW k \in Nat, t <= k,
           NEW j \in 0..n - 1
    PROVE  ~InRange(n, t, j, k)
<1> DEFINE kps == t \div n
<1>1. kps \in Nat /\ n * kps <= t
  BY LastStart
<1>2. CASE j = n - 1
  BY <1>2 DEF InRange, RangeMax
<1>3. CASE j # n - 1
  <2>1. (j + 1) * kps <= n * kps
    BY <1>1, <1>3, MulMono
  <2>. QED  BY <1>1, <1>3, <2>1 DEF InRange, RangeMax, KeysPerShard
<1>. QED
  BY <1>2, <1>3

\* The least element of a singleton is its element.
LEMMA LeastSingleton ==
    ASSUME NEW h \in Nat
    PROVE  Least({h}) = h
BY DEF Least

\* The set of ranges holding a key: {Home} below total_keys, none past it.
LEMMA Hits ==
    ASSUME NEW n \in Nat \ {0}, NEW t \in Nat, NEW k \in Nat
    PROVE  {i \in 0..n - 1 : InRange(n, t, i, k)} =
               IF k < t THEN {Home(n, t, k)} ELSE {}
<1>1. CASE k < t
  BY <1>1, HomeInRange, OnlyHome
<1>2. CASE ~(k < t)
  BY <1>2, NoRangePast
<1>. QED
  BY <1>1, <1>2

(***************************************************************************)
(* RangesPartition for every num_shards > 0 and total_keys: each key below *)
(* total_keys lies in exactly one of the ranges RangeSharding's            *)
(* constructor builds.                                                     *)
(***************************************************************************)
THEOREM RangesPartitionAll ==
    ASSUME NEW n \in Nat \ {0}, NEW t \in Nat, NEW k \in Nat, k < t
    PROVE  \E i \in 0..n - 1 :
               /\ InRange(n, t, i, k)
               /\ \A j \in 0..n - 1 \ {i} : ~InRange(n, t, j, k)
<1>1. Home(n, t, k) \in 0..n - 1 /\ InRange(n, t, Home(n, t, k), k)
  BY HomeInRange
<1>2. \A j \in 0..n - 1 \ {Home(n, t, k)} : ~InRange(n, t, j, k)
  BY OnlyHome
<1>. QED
  BY <1>1, <1>2

(***************************************************************************)
(* RangeShardIdIsReference for every num_shards > 0, total_keys and key:   *)
(* RangeSharding::shard_id, the first range holding the key or the last    *)
(* shard, is key \div keys_per_shard capped at the last shard, and the     *)
(* last shard when keys_per_shard is 0 or the key is past total_keys.      *)
(***************************************************************************)
THEOREM RangeShardIdClosedForm ==
    ASSUME NEW n \in Nat \ {0}, NEW t \in Nat, NEW k \in Nat
    PROVE  RangeShardId(n, t, k) = ReferenceRangeShard(n, t, k)
<1>1. CASE k < t
  <2>1. Home(n, t, k) \in Nat
    BY <1>1, HomeInRange
  <2>2. RangeShardId(n, t, k) = Home(n, t, k)
    BY <1>1, <2>1, Hits, LeastSingleton DEF RangeShardId
  <2>. QED
    BY <1>1, <2>2 DEF Home, ReferenceRangeShard
<1>2. CASE ~(k < t)
  <2>1. RangeShardId(n, t, k) = n - 1
    BY <1>2, Hits DEF RangeShardId
  <2>. QED
    BY <1>2, <2>1 DEF ReferenceRangeShard
<1>. QED
  BY <1>1, <1>2

\* Every state of MCSharding is an input with num_shards > 0.
LEMMA TypeInvariant == Spec => []TypeOK
<1>1. Init => TypeOK
  BY DEF Init, Inputs, TypeOK
<1>2. TypeOK /\ [Next]_vars => TypeOK'
  BY DEF Next, vars, Inputs, TypeOK
<1>. QED
  BY <1>1, <1>2, PTL DEF Spec

(***************************************************************************)
(* The two invariants MCSharding checks up to its bounds hold in every     *)
(* state, as the instances of the theorems above.                          *)
(***************************************************************************)
THEOREM RangesPartitionHolds == Spec => []RangesPartition
<1>1. TypeOK => RangesPartition
  BY RangesPartitionAll DEF TypeOK, RangesPartition
<1>. QED
  BY <1>1, TypeInvariant, PTL

\* See above: RangeSharding::shard_id agrees with the closed form in every state.
THEOREM RangeShardIdIsReferenceHolds == Spec => []RangeShardIdIsReference
<1>1. TypeOK => RangeShardIdIsReference
  BY RangeShardIdClosedForm DEF TypeOK, RangeShardIdIsReference
<1>. QED
  BY <1>1, TypeInvariant, PTL

=============================================================================
