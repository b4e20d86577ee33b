---------------------- MODULE DistributedIndexProofs -----------------------
(***************************************************************************)
(* Proofs, for every number of shards, set of keys, vectors and clients,  *)
(* of the DistributedIndex invariants that MCDistributedIndex.cfg checks.  *)
(***************************************************************************)
EXTENDS DistributedIndex, FiniteSetTheorems, SequenceTheorems, TLAPS

\* The shard contents, files and add_batch groups are functions over the
\* shards (and clients): an update of one shard leaves the others.
ShapeOK ==
    /\ shard = [s \in Shards |-> shard[s]]
    /\ file = [s \in Shards |-> file[s]]
    /\ groups = [c \in Clients |-> [s \in Shards |-> groups[c][s]]]
    /\ strategy \in Strategies

\* Every entry shard s holds, has in its file, or will receive from a
\* pending add_batch group, is routed to s by shard_id.
PlacedAt(s, E) == \A e \in E : ShardIdOf(e.key, 0) = s

(***************************************************************************)
(* The inductive invariant behind PlacementByStrategy: besides the shards *)
(* and their files, the groups that add_batch has formed and whose tasks  *)
(* have not yet run hold only entries routed to their shard.              *)
(***************************************************************************)
Placed ==
    strategy \in {"hash", "range"} =>
        \A s \in Shards :
            /\ PlacedAt(s, shard[s])
            /\ PlacedAt(s, file[s])
            /\ \A c \in Clients : PlacedAt(s, groups[c][s])

IInv == ShapeOK /\ Placed

-----------------------------------------------------------------------------
(* Lemmas about the operators.                                             *)

\* Hash and range sharding ignore the round-robin counter.
LEMMA ShardIdIgnoresCounter ==
    ASSUME strategy \in {"hash", "range"}, NEW key, NEW n
    PROVE  ShardIdOf(key, n) = ShardIdOf(key, 0)
BY DEF ShardIdOf

\* The engine accepts only entries it was given.
LEMMA AcceptsSubset ==
    ASSUME NEW E, NEW G, NEW acc \in EngineAccepts(E, G)
    PROVE  acc \subseteq G
<1>1. CASE EngineMayFail
  BY <1>1 DEF EngineAccepts
<1>2. CASE ~EngineMayFail
  BY <1>2 DEF EngineAccepts
<1>. QED
  BY <1>1, <1>2

\* strategy_ is fixed by the constructor: no step changes it.
LEMMA StrategyFixed == [Next]_vars => strategy' = strategy
BY DEF Next, vars, Add, AddBatchStart, Call, GroupKey, Dispatch, BatchReturn, BatchTask,
       SearchStart, Launch, Merge, SearchTask, SaveAllStart, SaveOk, SaveFail,
       LoadAllStart, LoadOk, LoadFail, Reopen, Finished

-----------------------------------------------------------------------------
(* The steps.                                                              *)

(***************************************************************************)
(* A step that leaves the shards and files alone and either leaves the    *)
(* groups alone or clears the groups of one client keeps IInv: the search *)
(* steps, save_all and load_all failures, the starts of calls, Dispatch,  *)
(* and the add_batch start and return.                                    *)
(***************************************************************************)
LEMMA FrameStep ==
    ASSUME IInv, UNCHANGED <<shard, file, strategy>>,
           \/ UNCHANGED groups
           \/ \E c \in Clients : groups' = [groups EXCEPT ![c] = [s \in Shards |-> {}]]
    PROVE  IInv'
<1>1. CASE UNCHANGED groups
  BY <1>1 DEF IInv, ShapeOK, Placed, PlacedAt, ShardIdOf
<1>2. ASSUME NEW c \in Clients, groups' = [groups EXCEPT ![c] = [s \in Shards |-> {}]]
      PROVE  IInv'
  <2>1. ShapeOK'
    BY <1>2 DEF IInv, ShapeOK
  <2>2. \A s \in Shards, d \in Clients : groups'[d][s] \subseteq groups[d][s]
    BY <1>2 DEF IInv, ShapeOK
  <2>. QED
    BY <1>2, <2>1, <2>2 DEF IInv, Placed, PlacedAt, ShardIdOf
<1>. QED
  BY <1>1, <1>2

\* Entries routed to s0 are added to shard s0 (add, an add_batch task).
LEMMA AddToShardStep ==
    ASSUME IInv, NEW s0, NEW X,
           shard' = [shard EXCEPT ![s0] = shard[s0] \cup X],
           UNCHANGED <<file, groups, strategy>>,
           strategy \in {"hash", "range"} => PlacedAt(s0, X)
    PROVE  IInv'
<1>1. ShapeOK'
  BY DEF IInv, ShapeOK
<1>2. \A s \in Shards : shard'[s] = IF s = s0 THEN shard[s] \cup X ELSE shard[s]
  BY DEF IInv, ShapeOK
<1>. QED
  BY <1>1, <1>2 DEF IInv, Placed, PlacedAt, ShardIdOf

\* An entry routed to s0 joins the group of client c for s0 (add_batch).
LEMMA AddToGroupStep ==
    ASSUME IInv, NEW c \in Clients, NEW s0, NEW x,
           groups' = [groups EXCEPT ![c][s0] = groups[c][s0] \cup {x}],
           UNCHANGED <<shard, file, strategy>>,
           strategy \in {"hash", "range"} => ShardIdOf(x.key, 0) = s0
    PROVE  IInv'
<1>1. ShapeOK'
  BY DEF IInv, ShapeOK
<1>2. \A s \in Shards, d \in Clients :
        groups'[d][s] = IF d = c /\ s = s0 THEN groups[d][s] \cup {x} ELSE groups[d][s]
  BY DEF IInv, ShapeOK
<1>. QED
  BY <1>1, <1>2 DEF IInv, Placed, PlacedAt, ShardIdOf

\* save_all writes shard p's content to its own file, or load_all reads
\* shard p's own file back.
LEMMA CopyStep ==
    ASSUME IInv, NEW p,
           \/ file' = [file EXCEPT ![p] = shard[p]] /\ UNCHANGED shard
           \/ shard' = [shard EXCEPT ![p] = file[p]] /\ UNCHANGED file,
           UNCHANGED <<groups, strategy>>
    PROVE  IInv'
<1>1. CASE file' = [file EXCEPT ![p] = shard[p]] /\ UNCHANGED shard
  <2>1. \A s \in Shards : file'[s] = IF s = p THEN shard[s] ELSE file[s]
    BY <1>1 DEF IInv, ShapeOK
  <2>2. ShapeOK'
    BY <1>1 DEF IInv, ShapeOK
  <2>. QED
    BY <1>1, <2>1, <2>2 DEF IInv, Placed, PlacedAt, ShardIdOf
<1>2. CASE shard' = [shard EXCEPT ![p] = file[p]] /\ UNCHANGED file
  <2>1. \A s \in Shards : shard'[s] = IF s = p THEN file[s] ELSE shard[s]
    BY <1>2 DEF IInv, ShapeOK
  <2>2. ShapeOK'
    BY <1>2 DEF IInv, ShapeOK
  <2>. QED
    BY <1>2, <2>1, <2>2 DEF IInv, Placed, PlacedAt, ShardIdOf
<1>. QED
  BY <1>1, <1>2

\* add: the key goes to the shard shard_id gives it now.
LEMMA AddStep ==
    ASSUME IInv, NEW c \in Clients, NEW key \in Keys, NEW v \in Vecs, Add(c, key, v)
    PROVE  IInv'
<1> DEFINE s0 == ShardIdOf(key, rrCounter)
           e == [key |-> key, vec |-> v]
<1>1. PICK acc \in EngineAccepts(shard[s0], {e}) : shard' = [shard EXCEPT ![s0] = shard[s0] \cup acc]
  BY DEF Add
<1>2. UNCHANGED <<file, groups, strategy>>
  BY DEF Add
<1>3. strategy \in {"hash", "range"} => PlacedAt(s0, acc)
  <2>1. acc \subseteq {e}
    BY AcceptsSubset
  <2>2. strategy \in {"hash", "range"} => ShardIdOf(key, 0) = s0
    BY ShardIdIgnoresCounter
  <2>. QED
    BY <2>1, <2>2 DEF PlacedAt
<1>. QED
  BY <1>1, <1>2, <1>3, AddToShardStep

\* add_batch's grouping step routes the least remaining key.
LEMMA GroupKeyStep ==
    ASSUME IInv, NEW c \in Clients, GroupKey(c)
    PROVE  IInv'
<1> DEFINE key == Least(DOMAIN batch[c])
           s0 == ShardIdOf(key, rrCounter)
           x == [key |-> key, vec |-> batch[c][key]]
<1>1. groups' = [groups EXCEPT ![c][s0] = groups[c][s0] \cup {x}]
  BY DEF GroupKey
<1>2. UNCHANGED <<shard, file, strategy>>
  BY DEF GroupKey
<1>3. strategy \in {"hash", "range"} => ShardIdOf(x.key, 0) = s0
  BY ShardIdIgnoresCounter
<1>. QED
  BY <1>1, <1>2, <1>3, AddToGroupStep

\* An add_batch task adds part of its group, which is routed to its shard.
LEMMA BatchTaskStep ==
    ASSUME IInv, NEW c \in Clients, NEW s \in Shards, BatchTask(c, s)
    PROVE  IInv'
<1>1. PICK acc \in EngineAccepts(shard[s], groups[c][s]) :
        shard' = [shard EXCEPT ![s] = shard[s] \cup acc]
  BY DEF BatchTask
<1>2. UNCHANGED <<file, groups, strategy>>
  BY DEF BatchTask
<1>3. strategy \in {"hash", "range"} => PlacedAt(s, acc)
  BY AcceptsSubset DEF IInv, Placed, PlacedAt
<1>. QED
  BY <1>1, <1>2, <1>3, AddToShardStep

\* A new cluster over the files starts with empty shards.
LEMMA ReopenStep ==
    ASSUME IInv, Reopen
    PROVE  IInv'
BY DEF Reopen, IInv, ShapeOK, Placed, PlacedAt, ShardIdOf

\* IInv is inductive.
LEMMA IInvStep == IInv /\ [Next]_vars => IInv'
<1> SUFFICES ASSUME IInv, [Next]_vars PROVE IInv'
  OBVIOUS
<1>1. ASSUME NEW c \in Clients, NEW key \in Keys, NEW v \in Vecs, Add(c, key, v) PROVE IInv'
  BY <1>1, AddStep
<1>2. ASSUME NEW c \in Clients, GroupKey(c) PROVE IInv'
  BY <1>2, GroupKeyStep
<1>3. ASSUME NEW c \in Clients, NEW s \in Shards, BatchTask(c, s) PROVE IInv'
  BY <1>3, BatchTaskStep
<1>4. ASSUME NEW c \in Clients, SaveOk(c) \/ LoadOk(c) PROVE IInv'
  BY <1>4, CopyStep DEF SaveOk, LoadOk, Advance
<1>5. CASE Reopen
  BY <1>5, ReopenStep
<1>6. ASSUME NEW c \in Clients,
             \/ \E B \in Batches : AddBatchStart(c, B)
             \/ BatchReturn(c)
      PROVE  IInv'
  BY <1>6, FrameStep DEF AddBatchStart, Call, BatchReturn
<1>7. ASSUME NEW c \in Clients,
             \/ Dispatch(c)
             \/ \E kk \in KValues, np \in NProbes : SearchStart(c, kk, np)
             \/ Launch(c) \/ Merge(c) \/ \E i \in 1..NumShards : SearchTask(c, i)
             \/ SaveAllStart(c) \/ SaveFail(c) \/ LoadAllStart(c) \/ LoadFail(c)
      PROVE  IInv'
  BY <1>7, FrameStep DEF Dispatch, SearchStart, Call, Launch, Merge, SearchTask,
     SaveAllStart, SaveFail, LoadAllStart, LoadFail, Fail
<1>8. CASE Finished \/ UNCHANGED vars
  BY <1>8, FrameStep DEF Finished, vars
<1>. QED
  BY <1>1, <1>2, <1>3, <1>4, <1>5, <1>6, <1>7, <1>8 DEF Next

\* A fresh cluster: empty shards, no file, no group.
LEMMA InitIInv == Init => IInv
BY DEF Init, IInv, ShapeOK, Placed, PlacedAt

(***************************************************************************)
(* PlacementByStrategy for every number of shards, key set, vectors and   *)
(* clients: under hash and range sharding, add, add_batch's grouping and  *)
(* its tasks, save_all, load_all and reopening, in any interleaving of    *)
(* the clients and their std::async tasks, never put a key on, or in the  *)
(* file of, a shard other than the one shard_id gives it.                 *)
(***************************************************************************)
THEOREM PlacementHolds == Spec => []PlacementByStrategy
<1>1. IInv => PlacementByStrategy
  BY DEF IInv, Placed, PlacedAt, PlacementByStrategy
<1>. QED
  BY <1>1, InitIInv, IInvStep, PTL DEF Spec

-----------------------------------------------------------------------------
(* Type correctness.                                                       *)

\* The per-client variables batch is a function over the clients.
BatchShape == batch = [c \in Clients |-> batch[c]]

(***************************************************************************)
(* The shard contents, snapshot files, add_batch groups and the answers of *)
(* the search tasks are finite: each grows by the entries of one call.     *)
(* The merge enumerates the answers (Enumerate), which needs it.           *)
(***************************************************************************)
FiniteOK ==
    /\ \A s \in Shards : IsFiniteSet(shard[s]) /\ IsFiniteSet(file[s])
    /\ \A c \in Clients, s \in Shards : IsFiniteSet(groups[c][s])
    /\ \A c \in Clients, i \in 1..NumShards : IsFiniteSet(answers[c][i])

TInv == TypeOK /\ BatchShape /\ FiniteOK

\* A non-empty set of keys has a least one (add_batch's keys[] in order).
LEMMA LeastIn ==
    ASSUME NEW S \in SUBSET Nat, S # {}
    PROVE  Least(S) \in S
<1>1. \E x \in S : \A y \in S : ~(<<y, x>> \in OpToRel(<, Nat))
  BY NatLessThanWellFounded, WFMin
<1>2. PICK x \in S : \A y \in S : ~(<<y, x>> \in OpToRel(<, Nat))
  BY <1>1
<1>3. ASSUME NEW y \in S PROVE x <= y
  <2>1. ~(<<y, x>> \in OpToRel(<, Nat))
    BY <1>2
  <2>2. ~(y < x)
    BY <2>1 DEF OpToRel
  <2>. QED
    BY <2>2
<1>. QED
  BY <1>3 DEF Least

\* The results of a finite set of entries are finite.
LEMMA ResultsFinite ==
    ASSUME NEW E, IsFiniteSet(E)
    PROVE  IsFiniteSet(Results(E))
<1>1. PICK n \in Nat : ExistsSurjection(1..n, E)
  BY FS_NatSurjection
<1>2. PICK g \in Surjection(1..n, E) : TRUE
  BY <1>1 DEF ExistsSurjection
<1> DEFINE h == [i \in 1..n |-> [key |-> g[i].key, dist |-> Dist[g[i].vec]]]
<1>3. h \in Surjection(1..n, Results(E))
  BY <1>2 DEF Surjection, Results
<1>4. \E m \in Nat : ExistsSurjection(1..m, Results(E))
  BY <1>3 DEF ExistsSurjection
<1>. QED
  BY <1>4, FS_NatSurjection

\* The union of finitely many finite sets F[1], ..., F[m] is finite.
LEMMA UnionFinite ==
    ASSUME NEW F, NEW m \in Nat, \A i \in 1..m : IsFiniteSet(F[i])
    PROVE  IsFiniteSet(UNION {F[i] : i \in 1..m})
<1> DEFINE h == [i \in 1..m |-> F[i]]
<1>1. h \in Surjection(1..m, {F[i] : i \in 1..m})
  BY DEF Surjection
<1>2. IsFiniteSet({F[i] : i \in 1..m})
  BY <1>1, FS_NatSurjection DEF ExistsSurjection
<1>. QED
  BY <1>2, FS_UNION

\* Enumerate lists a finite set.
LEMMA EnumerateType ==
    ASSUME NEW D, IsFiniteSet(D)
    PROVE  Enumerate(D) \in [1..Cardinality(D) -> D]
<1>1. PICK n \in Nat : ExistsBijection(1..n, D)
  BY FS_NatBijection
<1>2. Cardinality(D) = n
  BY <1>1, FS_CountingElements
<1>3. PICK f \in Bijection(1..n, D) : TRUE
  BY <1>1 DEF ExistsBijection
<1>4. f \in [1..n -> D] /\ \A i, j \in DOMAIN f : i # j => f[i] # f[j]
  BY <1>3 DEF Bijection, Injection, IsInjective
<1>. QED
  BY <1>2, <1>4 DEF Enumerate

\* strategy_->target_shards(q, x) lists the shards 0 .. x - 1.
LEMMA TargetShardsProps ==
    ASSUME NEW x \in 0..NumShards
    PROVE  /\ TargetShards(NumShards, x) \in Seq(Nat)
           /\ Len(TargetShards(NumShards, x)) = x
           /\ \A j \in 1..x : TargetShards(NumShards, x)[j] = j - 1
<1>1. TargetShards(NumShards, x) = [i \in 1..x |-> i - 1]
  BY ConstantsAssumption DEF TargetShards
<1>. QED
  BY <1>1

\* Garbage slots are results (with the NoKey key).
LEMMA GarbageType == Garbage \subseteq Result
BY ConstantsAssumption DEF Garbage, Result

(***************************************************************************)
(* Every outcome of the merge (sort and unique by key, partial_sort and   *)
(* resize, the undefined reads past the end included) is a sequence of    *)
(* results, when the answers it merges are a finite set of results.       *)
(***************************************************************************)
LEMMA MergeType ==
    ASSUME NEW A \in SUBSET Result, IsFiniteSet(A), NEW kk \in Nat
    PROVE  MergeOutcomes(A, kk) \subseteq Seq(Result)
<1> SUFFICES ASSUME NEW D \in Dedups(A),
                    NEW t \in [1..(IF Cardinality(D) < kk THEN kk - Cardinality(D) ELSE 0)
                                  -> A \cup Garbage],
                    NEW r \in SortedPrefix(Enumerate(D) \o t,
                                           IF Cardinality(D) < kk THEN Cardinality(D) ELSE kk)
             PROVE  r \in Seq(Result)
  BY DEF MergeOutcomes
<1>1. D \subseteq A /\ IsFiniteSet(D)
  BY FS_Subset DEF Dedups
<1>2. Cardinality(D) \in Nat
  BY <1>1, FS_CardinalityType
<1>3. Enumerate(D) \in Seq(Result)
  BY <1>1, <1>2, EnumerateType
<1>4. t \in Seq(Result)
  BY <1>2, GarbageType
<1> DEFINE reg == Enumerate(D) \o t
<1>5. reg \in Seq(Result)
  BY <1>3, <1>4, ConcatProperties
<1>6. {reg[j] : j \in DOMAIN reg} \subseteq Result
  <2>1. DOMAIN reg = 1..Len(reg)
    BY <1>5, LenProperties
  <2>. QED
    BY <1>5, <2>1, ElementOfSeq
<1>7. r \in [1..(IF Cardinality(D) < kk THEN Cardinality(D) ELSE kk) -> Result]
  BY <1>6 DEF SortedPrefix
<1>. QED
  BY <1>2, <1>7

\* Adding to shard s0 what the engine accepts of a finite set of entries
\* keeps every shard a finite set of entries (add, an add_batch task).
LEMMA GrowShardType ==
    ASSUME TInv, NEW s0, NEW G \in SUBSET Entry, IsFiniteSet(G),
           NEW acc \in EngineAccepts(shard[s0], G),
           shard' = [shard EXCEPT ![s0] = @ \cup acc]
    PROVE  /\ shard' \in [Shards -> SUBSET Entry]
           /\ \A s \in Shards : IsFiniteSet(shard'[s])
<1>1. acc \subseteq G /\ IsFiniteSet(acc)
  BY AcceptsSubset, FS_Subset
<1>2. ASSUME NEW s \in Shards
      PROVE  shard'[s] \in SUBSET Entry /\ IsFiniteSet(shard'[s])
  <2>1. CASE s = s0
    <3>1. shard'[s] = shard[s] \cup acc
      BY <2>1 DEF TInv, TypeOK
    <3>. QED
      BY <1>1, <3>1, FS_Union DEF TInv, TypeOK, FiniteOK
  <2>2. CASE s # s0
    BY <2>2 DEF TInv, TypeOK, FiniteOK
  <2>. QED
    BY <2>1, <2>2
<1>. QED
  BY <1>2 DEF TInv, TypeOK

\* The shard indices are 0 .. num_shards - 1, and there is at least one.
LEMMA ShardsFacts ==
    /\ Shards \subseteq Nat
    /\ Shards \subseteq 0..NumShards
    /\ 0 \in Shards
    /\ \A x \in Nat : x < NumShards => x \in Shards
BY ConstantsAssumption DEF Shards

\* The round-robin counter stays a shard index.
LEMMA NextCounterType ==
    ASSUME TInv
    PROVE  NextCounter \in Shards
BY ConstantsAssumption, ShardsFacts DEF TInv, TypeOK, NextCounter

LEMMA TypeAdd ==
    ASSUME TInv, NEW c \in Clients, NEW key \in Keys, NEW v \in Vecs, Add(c, key, v)
    PROVE  TInv'
<1> DEFINE s0 == ShardIdOf(key, rrCounter)
           e == [key |-> key, vec |-> v]
<1>1. PICK acc \in EngineAccepts(shard[s0], {e}) : shard' = [shard EXCEPT ![s0] = @ \cup acc]
  BY DEF Add
<1>2. {e} \subseteq Entry /\ IsFiniteSet({e})
  <2>1. e \in Entry
    BY DEF Entry
  <2>2. IsFiniteSet({e})
    BY FS_Singleton
  <2>. QED
    BY <2>1, <2>2
<1>3. shard' \in [Shards -> SUBSET Entry] /\ \A s \in Shards : IsFiniteSet(shard'[s])
  BY <1>1, <1>2, GrowShardType
<1>4. /\ calls' = calls + 1 /\ calls < MaxCalls
      /\ rrCounter' = NextCounter
      /\ ret' = [ret EXCEPT ![c] = TRUE]
      /\ UNCHANGED <<file, saved, pc, batch, groups, pending, searchVars, result, pos, strategy>>
  BY DEF Add
<1>5. rrCounter' \in Shards
  BY <1>4, NextCounterType
<1>6. TypeOK'
  BY <1>3, <1>4, <1>5, ConstantsAssumption DEF TInv, TypeOK, searchVars
<1>7. BatchShape' /\ FiniteOK'
  BY <1>3, <1>4 DEF TInv, BatchShape, FiniteOK, searchVars
<1>. QED
  BY <1>6, <1>7 DEF TInv

LEMMA TypeBatchTask ==
    ASSUME TInv, NEW c \in Clients, NEW s0 \in Shards, BatchTask(c, s0)
    PROVE  TInv'
<1>1. PICK acc \in EngineAccepts(shard[s0], groups[c][s0]) :
          shard' = [shard EXCEPT ![s0] = @ \cup acc]
  BY DEF BatchTask
<1>2. groups[c][s0] \subseteq Entry /\ IsFiniteSet(groups[c][s0])
  BY DEF TInv, TypeOK, FiniteOK
<1>3. shard' \in [Shards -> SUBSET Entry] /\ \A s \in Shards : IsFiniteSet(shard'[s])
  BY <1>1, <1>2, GrowShardType
<1>. QED
  BY <1>3 DEF BatchTask, TInv, TypeOK, BatchShape, FiniteOK, searchVars

LEMMA TypeAddBatchStart ==
    ASSUME TInv, NEW c \in Clients, NEW B \in Batches, AddBatchStart(c, B)
    PROVE  TInv'
<1>1. B \in [DOMAIN B -> Vecs] /\ DOMAIN B \subseteq Keys
  <2>1. PICK S \in SUBSET Keys : B \in [S -> Vecs]
    BY DEF Batches
  <2>. QED
    BY <2>1
<1>2. /\ calls' = calls + 1 /\ calls < MaxCalls
      /\ pc' = [pc EXCEPT ![c] = "group"]
      /\ batch' = [batch EXCEPT ![c] = B]
      /\ groups' = [groups EXCEPT ![c] = [s \in Shards |-> {}]]
      /\ UNCHANGED <<shard, file, saved, rrCounter, pending, searchVars, result, pos, ret, strategy>>
  BY DEF AddBatchStart, Call
<1>3. TypeOK'
  BY <1>1, <1>2, ConstantsAssumption DEF TInv, TypeOK, BatchShape, searchVars
<1>4. BatchShape' /\ FiniteOK'
  BY <1>2, FS_EmptySet DEF TInv, TypeOK, BatchShape, FiniteOK, searchVars
<1>. QED
  BY <1>3, <1>4 DEF TInv

LEMMA TypeGroupKey ==
    ASSUME TInv, NEW c \in Clients, GroupKey(c)
    PROVE  TInv'
<1> DEFINE dom  == DOMAIN batch[c]
           kmin == Least(dom)
           s1   == ShardIdOf(kmin, rrCounter)
           ent  == [key |-> kmin, vec |-> batch[c][kmin]]
<1>1. kmin \in dom /\ dom \subseteq Keys /\ batch[c] \in [dom -> Vecs]
  <2>1. dom \subseteq Keys /\ batch[c] \in [dom -> Vecs] /\ dom # {}
    BY DEF TInv, TypeOK, GroupKey
  <2>. QED
    BY <2>1, LeastIn, ConstantsAssumption
<1>2. ent \in Entry
  BY <1>1 DEF Entry
<1>3. /\ groups' = [groups EXCEPT ![c][s1] = @ \cup {ent}]
      /\ batch' = [batch EXCEPT ![c] = [j \in dom \ {kmin} |-> batch[c][j]]]
      /\ rrCounter' = NextCounter
      /\ UNCHANGED <<shard, file, saved, calls, pc, pending, searchVars, result, pos, ret, strategy>>
  BY DEF GroupKey
<1>4. ASSUME NEW d \in Clients, NEW s \in Shards
      PROVE  groups'[d][s] \in SUBSET Entry /\ IsFiniteSet(groups'[d][s])
  <2>1. CASE d = c /\ s = s1
    <3>1. groups'[d][s] = groups[c][s1] \cup {ent}
      BY <1>3, <2>1 DEF TInv, TypeOK
    <3>2. groups[c][s1] \subseteq Entry /\ IsFiniteSet(groups[c][s1])
      BY <2>1 DEF TInv, TypeOK, FiniteOK
    <3>3. IsFiniteSet(groups[c][s1] \cup {ent})
      BY <3>2, FS_AddElement
    <3>. QED
      BY <1>2, <3>1, <3>2, <3>3
  <2>2. CASE ~(d = c /\ s = s1)
    <3>1. groups'[d][s] = groups[d][s]
      BY <1>3, <2>2 DEF TInv, TypeOK
    <3>. QED
      BY <3>1 DEF TInv, TypeOK, FiniteOK
  <2>. QED
    BY <2>1, <2>2
<1>5. groups' \in [Clients -> [Shards -> SUBSET Entry]]
  BY <1>3, <1>4 DEF TInv, TypeOK
<1>6. rrCounter' \in Shards
  BY <1>3, NextCounterType
<1>7. TypeOK'
  BY <1>1, <1>3, <1>5, <1>6 DEF TInv, TypeOK, searchVars
<1>8. BatchShape' /\ FiniteOK'
  BY <1>3, <1>4 DEF TInv, BatchShape, FiniteOK, searchVars
<1>. QED
  BY <1>7, <1>8 DEF TInv

LEMMA TypeDispatch ==
    ASSUME TInv, NEW c \in Clients, Dispatch(c)
    PROVE  TInv'
BY DEF Dispatch, TInv, TypeOK, BatchShape, FiniteOK, searchVars

LEMMA TypeBatchReturn ==
    ASSUME TInv, NEW c \in Clients, BatchReturn(c)
    PROVE  TInv'
BY FS_EmptySet DEF BatchReturn, TInv, TypeOK, BatchShape, FiniteOK, searchVars

LEMMA TypeSearchStart ==
    ASSUME TInv, NEW c \in Clients, NEW kk \in KValues, NEW np \in NProbes,
           SearchStart(c, kk, np)
    PROVE  TInv'
<1> DEFINE x == IF np = 0 \/ np > NumShards THEN NumShards ELSE np
<1>1. x \in 0..NumShards
  BY ConstantsAssumption
<1>2. Len(TargetShards(NumShards, x)) = x
  BY <1>1, TargetShardsProps
<1>3. /\ calls' = calls + 1 /\ calls < MaxCalls
      /\ pc' = [pc EXCEPT ![c] = "search"]
      /\ k' = [k EXCEPT ![c] = kk]
      /\ nTargets' = [nTargets EXCEPT ![c] = Len(TargetShards(NumShards, x))]
      /\ result' = [result EXCEPT ![c] = <<>>]
      /\ UNCHANGED <<shard, file, saved, rrCounter, batch, groups, pending, launched, slot,
                     queried, answers, pos, ret, strategy>>
  BY DEF SearchStart, Call
<1>4. /\ calls' \in 0..MaxCalls
      /\ k' \in [Clients -> Nat \ {0}]
      /\ nTargets' \in [Clients -> 0..NumShards]
  <2>1. calls \in 0..MaxCalls /\ k \in [Clients -> Nat \ {0}]
        /\ nTargets \in [Clients -> 0..NumShards]
    BY DEF TInv, TypeOK
  <2>. QED
    BY <1>1, <1>2, <1>3, <2>1, ConstantsAssumption
<1>5. TypeOK'
  BY <1>3, <1>4 DEF TInv, TypeOK
<1>6. BatchShape' /\ FiniteOK'
  BY <1>3 DEF TInv, BatchShape, FiniteOK
<1>. QED
  BY <1>5, <1>6 DEF TInv

\* The loop variable takes the next target shard, launched[c] itself.
LEMMA TypeLaunch ==
    ASSUME TInv, NEW c \in Clients, Launch(c)
    PROVE  TInv'
<1>1. /\ launched[c] < nTargets[c]
      /\ nTargets[c] \in 0..NumShards
      /\ launched[c] \in 0..NumShards
  BY DEF Launch, TInv, TypeOK
<1>2. TargetShards(NumShards, nTargets[c])[launched[c] + 1] = launched[c]
  BY <1>1, TargetShardsProps
<1>3. /\ slot' = [slot EXCEPT ![c] = launched[c]]
      /\ launched' = [launched EXCEPT ![c] = @ + 1]
      /\ UNCHANGED <<shard, file, saved, rrCounter, calls, pc, batch, groups, pending, k,
                     nTargets, queried, answers, result, pos, ret, strategy>>
  BY <1>2 DEF Launch
<1>4. slot' \in [Clients -> Shards] /\ launched' \in [Clients -> 0..NumShards]
  BY <1>1, <1>3, ConstantsAssumption, ShardsFacts DEF TInv, TypeOK
<1>5. TypeOK'
  BY <1>3, <1>4 DEF TInv, TypeOK
<1>6. BatchShape' /\ FiniteOK'
  BY <1>3 DEF TInv, BatchShape, FiniteOK
<1>. QED
  BY <1>5, <1>6 DEF TInv

\* A search task's answer is a finite set of results of the shard it read.
LEMMA TypeSearchTask ==
    ASSUME TInv, NEW c \in Clients, NEW i \in 1..NumShards, SearchTask(c, i)
    PROVE  TInv'
<1>1. PICK A \in EngineSearch(shard[slot[c]], k[c]) : answers' = [answers EXCEPT ![c][i] = A]
  BY DEF SearchTask
<1>2. shard[slot[c]] \subseteq Entry /\ IsFiniteSet(shard[slot[c]])
  BY DEF TInv, TypeOK, FiniteOK
<1>3. Results(shard[slot[c]]) \subseteq Result /\ IsFiniteSet(Results(shard[slot[c]]))
  <2>1. Results(shard[slot[c]]) \subseteq Result
    BY <1>2, ConstantsAssumption DEF Results, Result, Entry
  <2>2. IsFiniteSet(Results(shard[slot[c]]))
    BY <1>2, ResultsFinite
  <2>. QED
    BY <2>1, <2>2
<1>4. A \subseteq Result /\ IsFiniteSet(A)
  <2>1. A \subseteq Results(shard[slot[c]])
    BY <1>1 DEF EngineSearch
  <2>. QED
    BY <1>3, <2>1, FS_Subset
<1>5. /\ queried' = [queried EXCEPT ![c][i] = slot[c]]
      /\ UNCHANGED <<shard, file, saved, rrCounter, calls, pc, batch, groups, pending, k,
                     nTargets, launched, slot, result, pos, ret, strategy>>
  BY DEF SearchTask
<1>6. ASSUME NEW d \in Clients, NEW j \in 1..NumShards
      PROVE  answers'[d][j] \subseteq Result /\ IsFiniteSet(answers'[d][j])
  <2>1. CASE d = c /\ j = i
    BY <1>1, <1>4, <2>1 DEF TInv, TypeOK
  <2>2. CASE ~(d = c /\ j = i)
    <3>1. answers'[d][j] = answers[d][j]
      BY <1>1, <2>2 DEF TInv, TypeOK
    <3>. QED
      BY <3>1 DEF TInv, TypeOK, FiniteOK
  <2>. QED
    BY <2>1, <2>2
<1>7. answers' \in [Clients -> [1..NumShards -> SUBSET Result]]
  BY <1>1, <1>6 DEF TInv, TypeOK
<1>8. queried' \in [Clients -> [1..NumShards -> 0..NumShards]]
  BY <1>5, ConstantsAssumption, ShardsFacts DEF TInv, TypeOK
<1>9. TypeOK'
  BY <1>5, <1>7, <1>8 DEF TInv, TypeOK
<1>10. BatchShape' /\ FiniteOK'
  BY <1>5, <1>6 DEF TInv, BatchShape, FiniteOK
<1>. QED
  BY <1>9, <1>10 DEF TInv

\* The answers a search merges are a finite set of results.
LEMMA AllAnswersOK ==
    ASSUME TInv, NEW c \in Clients
    PROVE  AllAnswers(c) \subseteq Result /\ IsFiniteSet(AllAnswers(c))
<1>1. nTargets[c] \in 0..NumShards /\ nTargets[c] \in Nat
  BY ConstantsAssumption DEF TInv, TypeOK
<1>2. ASSUME NEW i \in 1..nTargets[c]
      PROVE  answers[c][i] \subseteq Result /\ IsFiniteSet(answers[c][i])
  <2>1. i \in 1..NumShards
    BY <1>1, ConstantsAssumption
  <2>. QED
    BY <2>1 DEF TInv, TypeOK, FiniteOK
<1>3. \A i \in 1..nTargets[c] : IsFiniteSet(answers[c][i])
  BY <1>2
<1>4. IsFiniteSet(UNION {answers[c][i] : i \in 1..nTargets[c]})
  BY <1>1, <1>3, UnionFinite
<1>. QED
  BY <1>2, <1>4 DEF AllAnswers

\* The merge returns a sequence of results and resets the search state.
LEMMA TypeMerge ==
    ASSUME TInv, NEW c \in Clients, Merge(c)
    PROVE  TInv'
<1>1. k[c] \in Nat
  BY DEF TInv, TypeOK
<1>2. AllAnswers(c) \subseteq Result /\ IsFiniteSet(AllAnswers(c))
  BY AllAnswersOK
<1>3. PICK r \in MergeOutcomes(AllAnswers(c), k[c]) : result' = [result EXCEPT ![c] = r]
  BY DEF Merge
<1>4. r \in Seq(Result)
  BY <1>1, <1>2, MergeType
<1>5. /\ pc' = [pc EXCEPT ![c] = "idle"]
      /\ ret' = [ret EXCEPT ![c] = TRUE]
      /\ k' = [k EXCEPT ![c] = 1]
      /\ nTargets' = [nTargets EXCEPT ![c] = 0]
      /\ launched' = [launched EXCEPT ![c] = 0]
      /\ slot' = [slot EXCEPT ![c] = 0]
      /\ queried' = [queried EXCEPT ![c] = NoTask]
      /\ answers' = [answers EXCEPT ![c] = [i \in 1..NumShards |-> {}]]
      /\ UNCHANGED <<shard, file, saved, rrCounter, calls, batch, groups, pending, pos, strategy>>
  BY DEF Merge
<1>6. /\ slot' \in [Clients -> Shards]
      /\ queried' \in [Clients -> [1..NumShards -> 0..NumShards]]
      /\ answers' \in [Clients -> [1..NumShards -> SUBSET Result]]
  BY <1>5, ConstantsAssumption, ShardsFacts DEF TInv, TypeOK, NoTask
<1>7. result' \in [Clients -> Seq(Result)]
  BY <1>3, <1>4 DEF TInv, TypeOK
<1>8. /\ pc' \in [Clients -> {"idle", "group", "batch", "search", "save", "load"}]
      /\ ret' \in [Clients -> BOOLEAN]
      /\ k' \in [Clients -> Nat \ {0}]
      /\ nTargets' \in [Clients -> 0..NumShards]
      /\ launched' \in [Clients -> 0..NumShards]
  BY <1>5, ConstantsAssumption DEF TInv, TypeOK
<1>9. TypeOK'
  BY <1>5, <1>6, <1>7, <1>8 DEF TInv, TypeOK
<1>10. BatchShape' /\ FiniteOK'
  BY <1>5, FS_EmptySet DEF TInv, TypeOK, BatchShape, FiniteOK
<1>. QED
  BY <1>9, <1>10 DEF TInv

\* save_all's and load_all's loop index stays a shard index.
LEMMA AdvanceType ==
    ASSUME TInv, NEW c \in Clients, Advance(c)
    PROVE  /\ pos' \in [Clients -> Shards]
           /\ pc' \in [Clients -> {"idle", "group", "batch", "search", "save", "load"}]
           /\ ret' \in [Clients -> BOOLEAN]
<1>1. /\ pos \in [Clients -> Shards]
      /\ pc \in [Clients -> {"idle", "group", "batch", "search", "save", "load"}]
      /\ ret \in [Clients -> BOOLEAN]
  BY DEF TInv, TypeOK
<1>2. pos[c] \in Nat /\ pos[c] < NumShards
  BY <1>1, ConstantsAssumption DEF Shards
<1>3. (IF pos[c] + 1 = NumShards THEN 0 ELSE pos[c] + 1) \in Shards
  BY <1>2, ShardsFacts, ConstantsAssumption
<1>. QED
  BY <1>1, <1>3 DEF Advance

LEMMA TypeSaveLoad ==
    ASSUME TInv, NEW c \in Clients,
           \/ SaveAllStart(c) \/ SaveFail(c)
           \/ LoadAllStart(c) \/ LoadFail(c)
    PROVE  TInv'
<1>1. CASE SaveAllStart(c) \/ LoadAllStart(c)
  <2>1. /\ calls' = calls + 1 /\ calls < MaxCalls
        /\ pc' = [pc EXCEPT ![c] = IF SaveAllStart(c) THEN "save" ELSE "load"]
        /\ pos' = [pos EXCEPT ![c] = 0]
        /\ UNCHANGED <<shard, file, saved, rrCounter, batch, groups, pending, searchVars,
                       result, ret, strategy>>
    BY <1>1 DEF SaveAllStart, LoadAllStart, Call
  <2>2. pos' \in [Clients -> Shards]
    <3>1. pos \in [Clients -> Shards]
      BY DEF TInv, TypeOK
    <3>2. 0 \in Shards
      BY ShardsFacts
    <3>. QED
      BY <2>1, <3>1, <3>2
  <2>3. calls' \in 0..MaxCalls
    <3>1. calls \in 0..MaxCalls
      BY DEF TInv, TypeOK
    <3>. QED
      BY <2>1, <3>1, ConstantsAssumption
  <2>. QED
    BY <2>1, <2>2, <2>3 DEF TInv, TypeOK, BatchShape, FiniteOK, searchVars
<1>2. CASE SaveFail(c) \/ LoadFail(c)
  BY <1>2 DEF SaveFail, LoadFail, Fail, TInv, TypeOK, BatchShape, FiniteOK, searchVars
<1>. QED
  BY <1>1, <1>2

\* A successful save copies a shard, a successful load restores one.
LEMMA TypeSaveLoadOk ==
    ASSUME TInv, NEW c \in Clients, SaveOk(c) \/ LoadOk(c)
    PROVE  TInv'
<1>1. pos[c] \in Shards
  BY DEF TInv, TypeOK
<1>2. pos' \in [Clients -> Shards]
      /\ pc' \in [Clients -> {"idle", "group", "batch", "search", "save", "load"}]
      /\ ret' \in [Clients -> BOOLEAN]
  BY AdvanceType DEF SaveOk, LoadOk
<1>3. CASE SaveOk(c)
  BY <1>1, <1>2, <1>3 DEF SaveOk, TInv, TypeOK, BatchShape, FiniteOK, searchVars
<1>4. CASE LoadOk(c)
  BY <1>1, <1>2, <1>4 DEF LoadOk, TInv, TypeOK, BatchShape, FiniteOK, searchVars
<1>. QED
  BY <1>3, <1>4

LEMMA TypeReopen ==
    ASSUME TInv, Reopen
    PROVE  TInv'
BY FS_EmptySet, ShardsFacts
DEF Reopen, TInv, TypeOK, BatchShape, FiniteOK, searchVars

\* TInv is inductive.
LEMMA TInvStep == TInv /\ [Next]_vars => TInv'
<1> SUFFICES ASSUME TInv, [Next]_vars PROVE TInv'
  OBVIOUS
<1>1. ASSUME NEW c \in Clients,
             \/ \E key \in Keys, v \in Vecs : Add(c, key, v)
             \/ \E B \in Batches : AddBatchStart(c, B)
             \/ GroupKey(c) \/ Dispatch(c) \/ BatchReturn(c)
             \/ \E s \in Shards : BatchTask(c, s)
      PROVE  TInv'
  BY <1>1, TypeAdd, TypeAddBatchStart, TypeGroupKey, TypeDispatch, TypeBatchReturn, TypeBatchTask
<1>2. ASSUME NEW c \in Clients,
             \/ \E kk \in KValues, np \in NProbes : SearchStart(c, kk, np)
             \/ Launch(c) \/ Merge(c)
             \/ \E i \in 1..NumShards : SearchTask(c, i)
      PROVE  TInv'
  BY <1>2, TypeSearchStart, TypeLaunch, TypeMerge, TypeSearchTask
<1>3. ASSUME NEW c \in Clients,
             \/ SaveAllStart(c) \/ SaveOk(c) \/ SaveFail(c)
             \/ LoadAllStart(c) \/ LoadOk(c) \/ LoadFail(c)
      PROVE  TInv'
  BY <1>3, TypeSaveLoad, TypeSaveLoadOk
<1>4. CASE Reopen
  BY <1>4, TypeReopen
<1>5. CASE Finished \/ UNCHANGED vars
  BY <1>5 DEF Finished, vars, TInv, TypeOK, BatchShape, FiniteOK
<1>. QED
  BY <1>1, <1>2, <1>3, <1>4, <1>5 DEF Next

LEMMA InitTInv == Init => TInv
BY FS_EmptySet, ConstantsAssumption, ShardsFacts
DEF Init, TInv, TypeOK, BatchShape, FiniteOK, NoTask

(***************************************************************************)
(* TypeOK for every number of shards, key set, vectors and clients: every  *)
(* shard, file and add_batch group holds entries, the loop indices of      *)
(* search, save_all and load_all stay in range, and every search returns  *)
(* a sequence of results, the outcomes of the merge's undefined reads     *)
(* past the end (uninitialised NoKey slots) included.                      *)
(***************************************************************************)
THEOREM TypeCorrect == Spec => []TypeOK
<1>1. TInv => TypeOK
  BY DEF TInv
<1>. QED
  BY <1>1, InitTInv, TInvStep, PTL DEF Spec

-----------------------------------------------------------------------------
(* The merge of search.                                                    *)

\* std::unique by key leaves one entry per key: as many as there are keys.
LEMMA DedupCardinality ==
    ASSUME NEW A, NEW D \in Dedups(A), IsFiniteSet(D)
    PROVE  Cardinality(D) = Cardinality(KeysOf(A))
<1>1. PICK m \in Nat : ExistsBijection(1..m, D)
  BY FS_NatBijection
<1>2. PICK f \in Bijection(1..m, D) : TRUE
  BY <1>1 DEF ExistsBijection
<1>3. Cardinality(D) = m
  BY <1>1, FS_CountingElements
<1>4. /\ f \in [1..m -> D]
      /\ \A i, j \in 1..m : f[i] = f[j] => i = j
      /\ \A d \in D : \E i \in 1..m : f[i] = d
  BY <1>2 DEF Bijection, Injection, Surjection, IsInjective
<1>5. /\ KeysOf(D) = KeysOf(A)
      /\ \A d1, d2 \in D : d1.key = d2.key => d1 = d2
  BY DEF Dedups
<1> DEFINE g == [i \in 1..m |-> f[i].key]
<1>6. g \in Bijection(1..m, KeysOf(A))
  <2>1. g \in [1..m -> KeysOf(D)]
    BY <1>4 DEF KeysOf
  <2>2. \A i, j \in 1..m : g[i] = g[j] => i = j
    BY <1>4, <1>5
  <2>3. \A x \in KeysOf(D) : \E i \in 1..m : g[i] = x
    BY <1>4 DEF KeysOf
  <2>. QED
    BY <1>5, <2>1, <2>2, <2>3 DEF Bijection, Injection, Surjection, IsInjective
<1>7. Cardinality(KeysOf(A)) = m
  BY <1>6, FS_CountingElements DEF ExistsBijection
<1>. QED
  BY <1>3, <1>7

(***************************************************************************)
(* Every outcome of the merge of a finite set of results has min(k, number *)
(* of distinct keys) entries, in ascending distance.                       *)
(***************************************************************************)
LEMMA MergeTopK ==
    ASSUME NEW A \in SUBSET Result, IsFiniteSet(A), NEW kk \in Nat,
           NEW r \in MergeOutcomes(A, kk)
    PROVE  LET n == Cardinality(KeysOf(A))
           IN  /\ Len(r) = IF kk < n THEN kk ELSE n
               /\ \A i \in 1..Len(r) - 1 : r[i].dist <= r[i + 1].dist
<1>1. PICK D \in Dedups(A) :
          \E t \in [1..(IF Cardinality(D) < kk THEN kk - Cardinality(D) ELSE 0) -> A \cup Garbage] :
             r \in SortedPrefix(Enumerate(D) \o t, IF Cardinality(D) < kk THEN Cardinality(D) ELSE kk)
  BY DEF MergeOutcomes
<1>2. PICK t \in [1..(IF Cardinality(D) < kk THEN kk - Cardinality(D) ELSE 0) -> A \cup Garbage] :
          r \in SortedPrefix(Enumerate(D) \o t, IF Cardinality(D) < kk THEN Cardinality(D) ELSE kk)
  BY <1>1
<1>3. IsFiniteSet(D)
  BY FS_Subset DEF Dedups
<1>4. Cardinality(D) = Cardinality(KeysOf(A)) /\ Cardinality(D) \in Nat
  BY <1>3, DedupCardinality, FS_CardinalityType
<1> DEFINE len == IF Cardinality(D) < kk THEN Cardinality(D) ELSE kk
<1>5. /\ r \in [1..len -> {(Enumerate(D) \o t)[j] : j \in DOMAIN (Enumerate(D) \o t)}]
      /\ \A i \in 1..len - 1 : r[i].dist <= r[i + 1].dist
  BY <1>2 DEF SortedPrefix
<1>6. len \in Nat /\ Len(r) = len
  BY <1>4, <1>5
<1>. QED
  BY <1>4, <1>5, <1>6

LEMMA TInvHolds == Spec => []TInv
BY InitTInv, TInvStep, PTL DEF Spec

\* A returning search, from a state satisfying TInv, returns top-k.
LEMMA MergeStep ==
    ASSUME TInv, NEW c \in Clients, Merge(c)
    PROVE  LET n == Cardinality(KeysOf(AllAnswers(c)))
           IN  /\ Len(result'[c]) = IF k[c] < n THEN k[c] ELSE n
               /\ \A i \in 1..Len(result'[c]) - 1 : result'[c][i].dist <= result'[c][i + 1].dist
<1>1. k[c] \in Nat
  BY DEF TInv, TypeOK
<1>2. AllAnswers(c) \subseteq Result /\ IsFiniteSet(AllAnswers(c))
  BY AllAnswersOK
<1>3. PICK r \in MergeOutcomes(AllAnswers(c), k[c]) : result' = [result EXCEPT ![c] = r]
  BY DEF Merge
<1>4. result'[c] = r
  BY <1>3 DEF TInv, TypeOK
<1>. QED
  BY <1>1, <1>2, <1>4, MergeTopK

(***************************************************************************)
(* MergeReturnsTopK for every number of shards, key set, vectors and       *)
(* clients: whenever DistributedIndex::search returns, after sort, unique, *)
(* partial_sort and resize, its result has min(k, number of distinct keys  *)
(* the probed shards returned) entries, in ascending distance, even when  *)
(* partial_sort reads past the end.                                        *)
(***************************************************************************)
THEOREM MergeReturnsTopKHolds == Spec => MergeReturnsTopK
<1>1. TInv => \A c \in Clients :
                 Merge(c) =>
                    LET n == Cardinality(KeysOf(AllAnswers(c)))
                    IN  /\ Len(result'[c]) = IF k[c] < n THEN k[c] ELSE n
                        /\ \A i \in 1..Len(result'[c]) - 1 :
                              result'[c][i].dist <= result'[c][i + 1].dist
  BY MergeStep
<1>. QED
  BY <1>1, TInvHolds, PTL DEF MergeReturnsTopK

=============================================================================
