-------------------------- MODULE DistributedIndex --------------------------
(***************************************************************************)
(* DistributedIndex and ShardNode of distributed_examples.cpp.             *)
(*                                                                         *)
(* shard[s] is the content of ShardNode s's vector index.  Every ShardNode *)
(* operation holds the shard's mutex for the whole engine call, so it is   *)
(* one atomic step on shard[s].  Clients call add, add_batch, search,      *)
(* save_all and load_all concurrently; the tasks that add_batch and search *)
(* start with std::async (one thread each) are separate steps, so their    *)
(* interleavings with each other and with other clients are explored.     *)
(* strategy_ is chosen by the constructor; Reopen destroys the cluster    *)
(* and builds a new one over the same snapshot files.                     *)
(*                                                                         *)
(* Data is abstracted: a vector is a model value, its distance to the     *)
(* query is Dist[v]; a search result is a record [key, dist].             *)
(***************************************************************************)
EXTENDS Naturals, FiniteSets, Sequences, Sharding

CONSTANTS
    NumShards,      \* shards_.size()
    Keys,           \* vector keys the clients use
    Vecs,           \* vectors (model values)
    Dist,           \* Dist[v]: distance of vector v to the query
    Strategies,     \* the strategies the constructor may be given
    TotalKeys,      \* RangeSharding's total_keys
    KValues,        \* the k arguments of search
    NProbes,        \* the n_probe arguments of search
    MaxBatch,       \* largest add_batch the clients issue
    Clients,        \* caller threads
    MaxCalls,       \* bound on the number of calls, for TLC
    EngineMayFail,  \* whether the engine may reject an add (capacity, I/O)
    IoMayFail,      \* whether save / load may fail on I/O
    NoKey           \* key of a result slot holding uninitialised memory

ASSUME ConstantsAssumption ==
    /\ NumShards \in Nat \ {0}
    /\ Keys \subseteq Nat
    /\ Dist \in [Vecs -> Nat]
    /\ Strategies \subseteq {"hash", "round_robin", "range"} /\ Strategies # {}
    /\ TotalKeys \in Nat
    /\ KValues \subseteq Nat \ {0}
    /\ NProbes \subseteq Nat
    /\ MaxBatch \in Nat
    /\ MaxCalls \in Nat
    /\ EngineMayFail \in BOOLEAN
    /\ IoMayFail \in BOOLEAN
    /\ NoKey \notin Keys

Shards == 0..NumShards - 1

\* An entry of a vector index: a key and its vector.
Entry == [key : Keys, vec : Vecs]

\* A search result (result_t): a key and its distance.  NoKey results are
\* what undefined behaviour in the merge may read from uninitialised memory.
Result == [key : Keys \cup {NoKey}, dist : Nat]

\* The batches the clients pass to add_batch: keys with their vectors; the
\* keys[] array lists them in ascending order.
Batches == UNION {[S -> Vecs] : S \in {S \in SUBSET Keys : S # {} /\ Cardinality(S) <= MaxBatch}}

VARIABLES
    shard,      \* shard[s]: the entries of ShardNode s's index_
    file,       \* file[s]: the entries of the snapshot file of shard s
    saved,      \* saved[s]: that snapshot file exists
    rrCounter,  \* RoundRobinSharding::counter_ (mod num_shards)
    calls,      \* calls made so far (model bound)
    pc,         \* pc[c]: where client c is
    batch,      \* add_batch: the keys still to be grouped, with vectors
    groups,     \* add_batch: groups[c][s], the entries routed to shard s
    pending,    \* add_batch: shards whose group task has not run
    k,          \* search: the k argument
    nTargets,   \* search: number of target shards
    launched,   \* search: number of tasks started by the loop
    slot,       \* search: the loop variable shard_id the tasks capture by reference
    queried,    \* search: queried[c][i], the shard task i searched
    answers,    \* search: answers[c][i], what task i's shard returned
    result,     \* the vector search returned last
    pos,        \* save_all / load_all: the shard the loop is at
    ret,        \* the bool the last call returned
    strategy    \* strategy_: "hash", "round_robin" or "range"

vars == <<shard, file, saved, rrCounter, calls, pc, batch, groups, pending,
          k, nTargets, launched, slot, queried, answers, result, pos, ret, strategy>>

searchVars == <<k, nTargets, launched, slot, queried, answers>>

NoTask == [i \in 1..NumShards |-> NumShards]  \* no shard queried yet

-----------------------------------------------------------------------------
(* The vector index engine (usearch index_dense_gt), as ShardNode uses it. *)

Results(E) == {[key |-> e.key, dist |-> Dist[e.vec]] : e \in E}

KeysOf(R) == {r.key : r \in R}

(***************************************************************************)
(* index_.search(query, k): the min(k, size) entries nearest the query.    *)
(* Which of several equally distant entries are returned is left open.     *)
(***************************************************************************)
EngineSearch(E, kk) ==
    LET all == Results(E)
    IN  {A \in SUBSET all :
            /\ Cardinality(A) = IF kk < Cardinality(all) THEN kk ELSE Cardinality(all)
            /\ \A a \in A, b \in all \ A : a.dist <= b.dist}

(***************************************************************************)
(* index_.add of the entries G into E: an entry whose key is already in    *)
(* the index is refused (duplicate keys are not allowed), and with         *)
(* EngineMayFail any entry may be refused.  The set of outcomes, each the  *)
(* set of entries accepted.                                                *)
(***************************************************************************)
EngineAccepts(E, G) ==
    LET fresh == {g \in G : g.key \notin KeysOf(E)}
    IN  IF EngineMayFail THEN SUBSET fresh ELSE {fresh}

-----------------------------------------------------------------------------
(* ShardingStrategy: strategy_->shard_id(key), given the counter value a    *)
(* round-robin strategy fetched.                                           *)

ShardIdOf(key, counter) ==
    CASE strategy = "hash"        -> HashShardId(NumShards, key)
      [] strategy = "round_robin" -> RoundRobinShardId(NumShards, counter)
      [] strategy = "range"       -> RangeShardId(NumShards, TotalKeys, key)

NextCounter == IF strategy = "round_robin" THEN (rrCounter + 1) % NumShards ELSE rrCounter

-----------------------------------------------------------------------------
(* The merge at the end of DistributedIndex::search.                       *)

(***************************************************************************)
(* std::sort by key, then std::unique by key: one entry is kept per key.   *)
(* std::sort is not stable, so which of the duplicates survives is any.    *)
(***************************************************************************)
Dedups(A) ==
    {D \in SUBSET A : /\ KeysOf(D) = KeysOf(A)
                      /\ \A d1, d2 \in D : d1.key = d2.key => d1 = d2}

Garbage == {[key |-> NoKey, dist |-> Dist[v]] : v \in Vecs}

(***************************************************************************)
(* std::partial_sort(begin, begin + k, end) by distance, then resize(k)    *)
(* when size > k.  The first min(k, m) places of the deduplicated m        *)
(* entries are the smallest, ascending.  When m < k, begin + k is past end *)
(* (undefined behaviour): libstdc++ heap-sorts the k places from begin,    *)
(* whose last k - m hold stale entries or uninitialised memory, and the    *)
(* vector keeps its first m.  An outcome is the returned sequence.         *)
(***************************************************************************)
SortedPrefix(reg, n) ==
    {s \in [1..n -> {reg[j] : j \in DOMAIN reg}] :
        \E sigma \in [1..n -> DOMAIN reg] :
            /\ \A i, j \in 1..n : i # j => sigma[i] # sigma[j]
            /\ \A i \in 1..n : s[i] = reg[sigma[i]]
            /\ \A i \in 1..n - 1 : s[i].dist <= s[i + 1].dist
            /\ n > 0 => \A j \in DOMAIN reg \ {sigma[i] : i \in 1..n} : s[n].dist <= reg[j].dist}

Enumerate(D) == CHOOSE f \in [1..Cardinality(D) -> D] : \A i, j \in DOMAIN f : i # j => f[i] # f[j]

\* Mutant: the resize(k) left out, all m places sorted and returned.
MergeOutcomesNoResize(A, kk) ==
    UNION {SortedPrefix(Enumerate(D), Cardinality(D)) : D \in Dedups(A)}

MergeOutcomes(A, kk) ==
    UNION {LET m    == Cardinality(D)
               tail == IF m < kk THEN kk - m ELSE 0
           IN  UNION {SortedPrefix(Enumerate(D) \o t, IF m < kk THEN m ELSE kk) :
                          t \in [1..tail -> A \cup Garbage]}
           : D \in Dedups(A)}

AllAnswers(c) == UNION {answers[c][i] : i \in 1..nTargets[c]}

-----------------------------------------------------------------------------
Init ==
    /\ shard = [s \in Shards |-> {}]
    /\ file = [s \in Shards |-> {}]
    /\ saved = [s \in Shards |-> FALSE]
    /\ rrCounter = 0
    /\ calls = 0
    /\ pc = [c \in Clients |-> "idle"]
    /\ batch = [c \in Clients |-> <<>>]
    /\ groups = [c \in Clients |-> [s \in Shards |-> {}]]
    /\ pending = [c \in Clients |-> {}]
    /\ k = [c \in Clients |-> 1]
    /\ nTargets = [c \in Clients |-> 0]
    /\ launched = [c \in Clients |-> 0]
    /\ slot = [c \in Clients |-> 0]
    /\ queried = [c \in Clients |-> NoTask]
    /\ answers = [c \in Clients |-> [i \in 1..NumShards |-> {}]]
    /\ result = [c \in Clients |-> <<>>]
    /\ pos = [c \in Clients |-> 0]
    /\ ret = [c \in Clients |-> TRUE]
    /\ strategy \in Strategies

\* A client starts a call.
Call(c, where) ==
    /\ pc[c] = "idle"
    /\ calls < MaxCalls
    /\ calls' = calls + 1
    /\ pc' = [pc EXCEPT ![c] = where]

(***************************************************************************)
(* DistributedIndex::add -> ShardNode::add: route the key, then add it     *)
(* under the shard's lock; the engine's verdict is dropped and true is     *)
(* returned.                                                               *)
(***************************************************************************)
Add(c, key, v) ==
    /\ pc[c] = "idle"
    /\ calls < MaxCalls
    /\ calls' = calls + 1
    /\ LET s == ShardIdOf(key, rrCounter)
           e == [key |-> key, vec |-> v]
       IN  \E acc \in EngineAccepts(shard[s], {e}) :
              shard' = [shard EXCEPT ![s] = @ \cup acc]
    /\ rrCounter' = NextCounter
    /\ ret' = [ret EXCEPT ![c] = TRUE]
    /\ UNCHANGED <<file, saved, pc, batch, groups, pending, searchVars, result, pos, strategy>>

(***************************************************************************)
(* DistributedIndex::add_batch, the grouping loop: one step per key, in    *)
(* ascending order, each calling strategy_->shard_id.                      *)
(***************************************************************************)
AddBatchStart(c, B) ==
    /\ Call(c, "group")
    /\ batch' = [batch EXCEPT ![c] = B]
    /\ groups' = [groups EXCEPT ![c] = [s \in Shards |-> {}]]
    /\ UNCHANGED <<shard, file, saved, rrCounter, pending, searchVars, result, pos, ret, strategy>>

GroupKey(c) ==
    /\ pc[c] = "group"
    /\ DOMAIN batch[c] # {}
    /\ LET key == Least(DOMAIN batch[c])
           s   == ShardIdOf(key, rrCounter)
       IN  /\ groups' = [groups EXCEPT ![c][s] = @ \cup {[key |-> key, vec |-> batch[c][key]]}]
           /\ batch' = [batch EXCEPT ![c] = [j \in DOMAIN batch[c] \ {key} |-> batch[c][j]]]
    /\ rrCounter' = NextCounter
    /\ UNCHANGED <<shard, file, saved, calls, pc, pending, searchVars, result, pos, ret, strategy>>

\* The dispatch loop: one std::async task per non-empty group.
Dispatch(c) ==
    /\ pc[c] = "group"
    /\ DOMAIN batch[c] = {}
    /\ pending' = [pending EXCEPT ![c] = {s \in Shards : groups[c][s] # {}}]
    /\ pc' = [pc EXCEPT ![c] = "batch"]
    /\ UNCHANGED <<shard, file, saved, rrCounter, calls, batch, groups, searchVars, result, pos, ret, strategy>>

\* A group task: ShardNode::add_batch, one engine call under the shard's lock.
BatchTask(c, s) ==
    /\ pc[c] = "batch"
    /\ s \in pending[c]
    /\ \E acc \in EngineAccepts(shard[s], groups[c][s]) :
          shard' = [shard EXCEPT ![s] = @ \cup acc]
    /\ pending' = [pending EXCEPT ![c] = @ \ {s}]
    /\ UNCHANGED <<file, saved, rrCounter, calls, pc, batch, groups, searchVars, result, pos, ret, strategy>>

\* future.get() on every task, then return true (the futures' values are dropped).
BatchReturn(c) ==
    /\ pc[c] = "batch"
    /\ pending[c] = {}
    /\ pc' = [pc EXCEPT ![c] = "idle"]
    /\ ret' = [ret EXCEPT ![c] = TRUE]
    /\ groups' = [groups EXCEPT ![c] = [s \in Shards |-> {}]]
    /\ UNCHANGED <<shard, file, saved, rrCounter, calls, batch, pending, searchVars, result, pos, strategy>>

(***************************************************************************)
(* DistributedIndex::search: clamp n_probe to [1, num_shards] (0 means     *)
(* all) and take strategy_->target_shards.                                 *)
(***************************************************************************)
SearchStart(c, kk, nProbe) ==
    /\ Call(c, "search")
    /\ k' = [k EXCEPT ![c] = kk]
    /\ nTargets' = [nTargets EXCEPT ![c] =
          Len(TargetShards(NumShards, IF nProbe = 0 \/ nProbe > NumShards THEN NumShards ELSE nProbe))]
    /\ result' = [result EXCEPT ![c] = <<>>]
    /\ UNCHANGED <<shard, file, saved, rrCounter, batch, groups, pending, launched, slot,
                   queried, answers, pos, ret, strategy>>

(***************************************************************************)
(* One iteration of `for (auto shard_id : target_shards)`: the loop        *)
(* variable takes the next target and a task is started whose lambda       *)
(* captures it by reference ([&]).                                         *)
(***************************************************************************)
Launch(c) ==
    /\ pc[c] = "search"
    /\ launched[c] < nTargets[c]
    /\ slot' = [slot EXCEPT ![c] = TargetShards(NumShards, nTargets[c])[launched[c] + 1]]
    /\ launched' = [launched EXCEPT ![c] = @ + 1]
    /\ UNCHANGED <<shard, file, saved, rrCounter, calls, pc, batch, groups, pending, k,
                   nTargets, queried, answers, result, pos, ret, strategy>>

(***************************************************************************)
(* A search task runs: it reads shard_id through the reference, i.e. the   *)
(* loop variable's value now, which a later iteration may have changed,   *)
(* and calls ShardNode::search(query, k) on that shard.                    *)
(***************************************************************************)
SearchTask(c, i) ==
    /\ pc[c] = "search"
    /\ i \in 1..launched[c]
    /\ queried[c][i] = NumShards
    /\ queried' = [queried EXCEPT ![c][i] = slot[c]]
    /\ \E A \in EngineSearch(shard[slot[c]], k[c]) :
          answers' = [answers EXCEPT ![c][i] = A]
    /\ UNCHANGED <<shard, file, saved, rrCounter, calls, pc, batch, groups, pending, k,
                   nTargets, launched, slot, result, pos, ret, strategy>>

\* future.get() on every task, then the merge; the call returns its result.
Merge(c) ==
    /\ pc[c] = "search"
    /\ launched[c] = nTargets[c]
    /\ \A i \in 1..nTargets[c] : queried[c][i] # NumShards
    /\ \E r \in MergeOutcomes(AllAnswers(c), k[c]) : result' = [result EXCEPT ![c] = r]
    /\ pc' = [pc EXCEPT ![c] = "idle"]
    /\ ret' = [ret EXCEPT ![c] = TRUE]
    /\ k' = [k EXCEPT ![c] = 1]
    /\ nTargets' = [nTargets EXCEPT ![c] = 0]
    /\ launched' = [launched EXCEPT ![c] = 0]
    /\ slot' = [slot EXCEPT ![c] = 0]
    /\ queried' = [queried EXCEPT ![c] = NoTask]
    /\ answers' = [answers EXCEPT ![c] = [i \in 1..NumShards |-> {}]]
    /\ UNCHANGED <<shard, file, saved, rrCounter, calls, batch, groups, pending, pos, strategy>>

-----------------------------------------------------------------------------
(***************************************************************************)
(* save_all / load_all: shards in order, each ShardNode::save / load under *)
(* the shard's lock, to the file base_path + "_shard_" + id; the first     *)
(* failure returns false and the remaining shards are not attempted.       *)
(***************************************************************************)
SaveAllStart(c) ==
    /\ Call(c, "save")
    /\ pos' = [pos EXCEPT ![c] = 0]
    /\ UNCHANGED <<shard, file, saved, rrCounter, batch, groups, pending, searchVars, result, ret, strategy>>

\* Mutant: the loop runs one shard past the last (i <= size).
AdvancePastEnd(c) ==
    /\ pos' = [pos EXCEPT ![c] = @ + 1]
    /\ pc' = [pc EXCEPT ![c] = IF pos[c] + 1 > NumShards THEN "idle" ELSE pc[c]]
    /\ ret' = [ret EXCEPT ![c] = TRUE]

\* The loop moves to shard pos + 1, or returns true after the last shard.
Advance(c) ==
    /\ pos' = [pos EXCEPT ![c] = IF @ + 1 = NumShards THEN 0 ELSE @ + 1]
    /\ pc' = [pc EXCEPT ![c] = IF pos[c] + 1 = NumShards THEN "idle" ELSE pc[c]]
    /\ ret' = [ret EXCEPT ![c] = TRUE]

Fail(c) ==
    /\ pc' = [pc EXCEPT ![c] = "idle"]
    /\ ret' = [ret EXCEPT ![c] = FALSE]
    /\ UNCHANGED pos

SaveOk(c) ==
    /\ pc[c] = "save"
    /\ file' = [file EXCEPT ![pos[c]] = shard[pos[c]]]
    /\ saved' = [saved EXCEPT ![pos[c]] = TRUE]
    /\ Advance(c)
    /\ UNCHANGED <<shard, rrCounter, calls, batch, groups, pending, searchVars, result, strategy>>

SaveFail(c) ==
    /\ pc[c] = "save"
    /\ IoMayFail
    /\ Fail(c)
    /\ UNCHANGED <<shard, file, saved, rrCounter, calls, batch, groups, pending, searchVars, result, strategy>>

LoadAllStart(c) ==
    /\ Call(c, "load")
    /\ pos' = [pos EXCEPT ![c] = 0]
    /\ UNCHANGED <<shard, file, saved, rrCounter, batch, groups, pending, searchVars, result, ret, strategy>>

\* Mutant: shard i loads the file of shard i + 1.
LoadOkNeighbourFile(c) ==
    /\ pc[c] = "load"
    /\ saved[(pos[c] + 1) % NumShards]
    /\ shard' = [shard EXCEPT ![pos[c]] = file[(pos[c] + 1) % NumShards]]
    /\ Advance(c)
    /\ UNCHANGED <<file, saved, rrCounter, calls, batch, groups, pending, searchVars, result, strategy>>

\* index_.load replaces the shard's content by the file's.
LoadOk(c) ==
    /\ pc[c] = "load"
    /\ saved[pos[c]]
    /\ shard' = [shard EXCEPT ![pos[c]] = file[pos[c]]]
    /\ Advance(c)
    /\ UNCHANGED <<file, saved, rrCounter, calls, batch, groups, pending, searchVars, result, strategy>>

\* A missing file, or an I/O error.
LoadFail(c) ==
    /\ pc[c] = "load"
    /\ ~saved[pos[c]] \/ IoMayFail
    /\ Fail(c)
    /\ UNCHANGED <<shard, file, saved, rrCounter, calls, batch, groups, pending, searchVars, result, strategy>>

(***************************************************************************)
(* example_05_persistence: the cluster goes out of scope once its calls    *)
(* have returned, and a new DistributedIndex with the same strategy and   *)
(* shard count is built over the same files: empty shards, a fresh        *)
(* round-robin counter; only the snapshot files remain.                    *)
(***************************************************************************)
Reopen ==
    /\ \A c \in Clients : pc[c] = "idle"
    /\ shard' = [s \in Shards |-> {}]
    /\ rrCounter' = 0
    /\ UNCHANGED <<file, saved, calls, pc, batch, groups, pending, searchVars, result, pos, ret, strategy>>

-----------------------------------------------------------------------------
\* The clients have made their MaxCalls calls and all returned.
Finished ==
    /\ calls = MaxCalls
    /\ \A c \in Clients : pc[c] = "idle"
    /\ UNCHANGED vars

Next ==
    \/ \E c \in Clients :
          \/ \E key \in Keys, v \in Vecs : Add(c, key, v)
          \/ \E B \in Batches : AddBatchStart(c, B)
          \/ GroupKey(c) \/ Dispatch(c) \/ BatchReturn(c)
          \/ \E s \in Shards : BatchTask(c, s)
          \/ \E kk \in KValues, np \in NProbes : SearchStart(c, kk, np)
          \/ Launch(c) \/ Merge(c)
          \/ \E i \in 1..NumShards : SearchTask(c, i)
          \/ SaveAllStart(c) \/ SaveOk(c) \/ SaveFail(c)
          \/ LoadAllStart(c) \/ LoadOk(c) \/ LoadFail(c)
    \/ Reopen
    \/ Finished

Spec == Init /\ [][Next]_vars

-----------------------------------------------------------------------------
(* Properties                                                              *)

TypeOK ==
    /\ shard \in [Shards -> SUBSET Entry]
    /\ file \in [Shards -> SUBSET Entry]
    /\ saved \in [Shards -> BOOLEAN]
    /\ rrCounter \in Shards
    /\ calls \in 0..MaxCalls
    /\ pc \in [Clients -> {"idle", "group", "batch", "search", "save", "load"}]
    /\ \A c \in Clients : batch[c] \in [DOMAIN batch[c] -> Vecs] /\ DOMAIN batch[c] \subseteq Keys
    /\ groups \in [Clients -> [Shards -> SUBSET Entry]]
    /\ pending \in [Clients -> SUBSET Shards]
    /\ k \in [Clients -> Nat \ {0}]
    /\ nTargets \in [Clients -> 0..NumShards]
    /\ launched \in [Clients -> 0..NumShards]
    /\ slot \in [Clients -> Shards]
    /\ queried \in [Clients -> [1..NumShards -> 0..NumShards]]
    /\ answers \in [Clients -> [1..NumShards -> SUBSET Result]]
    /\ result \in [Clients -> Seq(Result)]
    /\ pos \in [Clients -> Shards]
    /\ ret \in [Clients -> BOOLEAN]
    /\ strategy \in Strategies

(***************************************************************************)
(* Under the deterministic strategies (hash, range) every entry of every   *)
(* shard is one that shard_id routes to that shard: add_batch's grouping   *)
(* step, its later group task, add, and a load_all of files that save_all  *)
(* wrote, in any interleaving, never put a key on a foreign shard.         *)
(***************************************************************************)
PlacementByStrategy ==
    strategy \in {"hash", "range"} =>
        \A s \in Shards : \A e \in shard[s] \cup file[s] : ShardIdOf(e.key, 0) = s

(***************************************************************************)
(* The merge of search returns min(k, number of distinct keys the probed   *)
(* shards returned) results, in ascending distance: the dedupe by key and  *)
(* the top-k truncation, checked on every search step that returns.        *)
(***************************************************************************)
MergeReturnsTopK ==
    [][\A c \in Clients :
          Merge(c) =>
             LET n == Cardinality(KeysOf(AllAnswers(c)))
             IN  /\ Len(result'[c]) = IF k[c] < n THEN k[c] ELSE n
                 /\ \A i \in 1..Len(result'[c]) - 1 : result'[c][i].dist <= result'[c][i + 1].dist
      ]_vars

(***************************************************************************)
(* Spec 4.3: search dispatches one search per target shard, so the shards  *)
(* the tasks of a returning search queried are exactly its targets.  The   *)
(* tasks capture the loop variable shard_id by reference.                  *)
(***************************************************************************)
FanOutCoversTargets ==
    [][\A c \in Clients :
          Merge(c) =>
             {queried[c][i] : i \in 1..nTargets[c]}
                = {TargetShards(NumShards, nTargets[c])[i] : i \in 1..nTargets[c]}
      ]_vars

(***************************************************************************)
(* Spec 8 (top-k truncation): every result search returns is one a probed  *)
(* shard returned, and no key occurs twice.  partial_sort(begin, begin+k,  *)
(* end) when fewer than k results remain reads past the end.               *)
(***************************************************************************)
SearchResultGenuine ==
    [][\A c \in Clients :
          Merge(c) =>
             /\ \A i \in 1..Len(result'[c]) : result'[c][i] \in AllAnswers(c)
             /\ \A i, j \in 1..Len(result'[c]) : i # j => result'[c][i].key # result'[c][j].key
      ]_vars

(***************************************************************************)
(* Spec 7(b): a failed engine add inside a batch is aggregated into an     *)
(* overall failure.  When add_batch returns true, every vector of the      *)
(* batch is in the index of the shard it was routed to.  ShardNode's      *)
(* add_batch and DistributedIndex::add_batch both return true whatever     *)
(* the engine did.                                                          *)
(***************************************************************************)
AddBatchReportsFailure ==
    [][\A c \in Clients :
          BatchReturn(c) /\ ret'[c] => \A s \in Shards : groups[c][s] \subseteq shard[s]
      ]_vars

=============================================================================
