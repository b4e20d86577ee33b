------------------------- MODULE ProductionCluster -------------------------
(***************************************************************************)
(* ProductionCluster of advanced_distributed.cpp with its                  *)
(* AdaptiveLoadBalancer and Tracer: concurrent smart_search calls, which  *)
(* pick a shard with select_shard, and the per-shard tasks of             *)
(* parallel_search, each bracketing a ShardNode::search with               *)
(* record_request_start and record_request_end and opening and finishing  *)
(* trace spans.                                                            *)
(*                                                                         *)
(* avg_latency_ms is a std::atomic<double> updated by a load, a compute   *)
(* and a store: two steps here.  A value of the EMA is kept exactly as     *)
(* num / 10^n, where n is the number of updates folded into it; latencies *)
(* are small integers (ms).  Rounding of doubles is not modelled.          *)
(* The result merge of parallel_search is the code of                      *)
(* DistributedIndex::search and is modelled there.                         *)
(***************************************************************************)
EXTENDS Naturals, Sequences, FiniteSets

CONSTANTS
    NumShards,  \* num_shards
    Requests,   \* the searches and search tasks that run (model values)
    Latencies   \* the latencies, in ms, a shard search may take

ASSUME ClusterAssumption ==
    /\ NumShards \in Nat \ {0}
    /\ IsFiniteSet(Requests)
    /\ Latencies \subseteq Nat /\ Latencies # {}

Shards == 0..NumShards - 1

VARIABLES
    active,     \* ShardStats::active_requests
    total,      \* ShardStats::total_requests
    avg,        \* ShardStats::avg_latency_ms, as [num, n]: num / 10^n
    ended,      \* ended[s]: record_request_end calls on s that completed
    pc,         \* pc[r]: where request r is
    shardOf,    \* the shard request r searches
    lat,        \* the latency request r measured
    oldAvg,     \* the avg_latency_ms record_request_end of r loaded
    spans,      \* Tracer::spans_: [parent, done] records, span_<i> at i
    spanOf,     \* spanOf[r]: the ids of the spans r opened
    lbLocked,   \* AdaptiveLoadBalancer::mutex_ is held
    scanAt,     \* scanAt[r]: the shard select_shard of r looks at next
    readActive, \* readActive[r]: the active_requests it loaded there
    best,       \* best[r]: select_shard's best_shard
    bestScore   \* bestScore[r]: select_shard's best_score

selVars == <<lbLocked, scanAt, readActive, best, bestScore>>

vars == <<active, total, avg, ended, pc, shardOf, lat, oldAvg, spans, spanOf,
          selVars>>

NoSpan == 0

-----------------------------------------------------------------------------
(* AdaptiveLoadBalancer.                                                   *)

(***************************************************************************)
(* A score active + avg_latency_ms / 10 as select_shard computes it from  *)
(* the values it loaded, or the DBL_MAX best_score starts with.  Scores   *)
(* are compared exactly: both are scaled by 10^(m + 1) for an m at least  *)
(* the two averages' n, so that they compare as integers.                 *)
(***************************************************************************)
ScoreOf(a, v) == [inf |-> FALSE, a |-> a, v |-> v]

MaxScore == [inf |-> TRUE, a |-> 0, v |-> [num |-> 0, n |-> 0]]

Scaled(x, m) == x.a * 10 ^ (m + 1) + x.v.num * 10 ^ (m - x.v.n)

\* `score < best_score`
ScoreLess(x, y) ==
    \/ y.inf /\ ~x.inf
    \/ /\ ~x.inf /\ ~y.inf
       /\ LET m == IF x.v.n >= y.v.n THEN x.v.n ELSE y.v.n
          IN  Scaled(x, m) < Scaled(y, m)

\* new_avg = old_avg * 0.9 + latency_ms * 0.1
Ema(old, l) == [num |-> 9 * old.num + l * 10 ^ old.n, n |-> old.n + 1]

-----------------------------------------------------------------------------
(* Tracer.                                                                 *)

\* start_span: the next id of id_counter_, and a span appended to spans_.
OpenSpan(parent) == Append(spans, [parent |-> parent, done |-> FALSE])

(***************************************************************************)
(* finish_span looks for the span whose tags["span_id"] equals the id;     *)
(* start_span never sets that tag, so no span is found and none is        *)
(* finished.                                                               *)
(***************************************************************************)
SpanWithTag(id) == {x \in 1..Len(spans) : FALSE}

FinishSpans(ids) ==
    spans' = [x \in 1..Len(spans) |->
                   IF \E id \in ids : x \in SpanWithTag(id)
                   THEN [spans[x] EXCEPT !.done = TRUE] ELSE spans[x]]

-----------------------------------------------------------------------------
Init ==
    /\ active = [s \in Shards |-> 0]
    /\ total = [s \in Shards |-> 0]
    /\ avg = [s \in Shards |-> [num |-> 0, n |-> 0]]
    /\ ended = [s \in Shards |-> 0]
    /\ pc = [r \in Requests |-> "idle"]
    /\ shardOf = [r \in Requests |-> 0]
    /\ lat = [r \in Requests |-> 0]
    /\ oldAvg = [r \in Requests |-> [num |-> 0, n |-> 0]]
    /\ spans = <<>>
    /\ spanOf = [r \in Requests |-> <<>>]
    /\ lbLocked = FALSE
    /\ scanAt = [r \in Requests |-> 0]
    /\ readActive = [r \in Requests |-> 0]
    /\ best = [r \in Requests |-> 0]
    /\ bestScore = [r \in Requests |-> MaxScore]

\* smart_search: start_span("smart_search").
SmartStart(r) ==
    /\ pc[r] = "idle"
    /\ spans' = OpenSpan(NoSpan)
    /\ spanOf' = [spanOf EXCEPT ![r] = <<Len(spans) + 1>>]
    /\ pc' = [pc EXCEPT ![r] = "select"]
    /\ UNCHANGED <<active, total, avg, ended, shardOf, lat, oldAvg, selVars>>

(***************************************************************************)
(* select_shard takes mutex_, which only other select_shard calls take:   *)
(* record_request_start and record_request_end change the statistics     *)
(* between its loads.  best_shard = 0, best_score = DBL_MAX.              *)
(***************************************************************************)
SelectBegin(r) ==
    /\ pc[r] = "select"
    /\ ~lbLocked
    /\ lbLocked' = TRUE
    /\ scanAt' = [scanAt EXCEPT ![r] = 0]
    /\ best' = [best EXCEPT ![r] = 0]
    /\ bestScore' = [bestScore EXCEPT ![r] = MaxScore]
    /\ pc' = [pc EXCEPT ![r] = "loadActive"]
    /\ UNCHANGED <<active, total, avg, ended, shardOf, lat, oldAvg, spans, spanOf,
                   readActive>>

\* The loop body: shard.active_requests.load().
LoadActive(r) ==
    /\ pc[r] = "loadActive"
    /\ scanAt[r] < NumShards
    /\ readActive' = [readActive EXCEPT ![r] = active[scanAt[r]]]
    /\ pc' = [pc EXCEPT ![r] = "loadLatency"]
    /\ UNCHANGED <<active, total, avg, ended, shardOf, lat, oldAvg, spans, spanOf,
                   lbLocked, scanAt, best, bestScore>>

\* shard.avg_latency_ms.load(), the score, and `if (score < best_score)`.
LoadLatency(r) ==
    /\ pc[r] = "loadLatency"
    /\ LET s == scanAt[r]
           score == ScoreOf(readActive[r], avg[s])
       IN  IF ScoreLess(score, bestScore[r])
           THEN /\ best' = [best EXCEPT ![r] = s]
                /\ bestScore' = [bestScore EXCEPT ![r] = score]
           ELSE UNCHANGED <<best, bestScore>>
    /\ scanAt' = [scanAt EXCEPT ![r] = @ + 1]
    /\ pc' = [pc EXCEPT ![r] = "loadActive"]
    /\ UNCHANGED <<active, total, avg, ended, shardOf, lat, oldAvg, spans, spanOf,
                   lbLocked, readActive>>

\* The loop ends: return best_shard, releasing mutex_; smart_search then
\* calls start_span("query_primary").
SelectEnd(r) ==
    /\ pc[r] = "loadActive"
    /\ scanAt[r] = NumShards
    /\ lbLocked' = FALSE
    /\ shardOf' = [shardOf EXCEPT ![r] = best[r]]
    /\ spans' = OpenSpan(spanOf[r][1])
    /\ spanOf' = [spanOf EXCEPT ![r] = Append(@, Len(spans) + 1)]
    /\ pc' = [pc EXCEPT ![r] = "start"]
    /\ UNCHANGED <<active, total, avg, ended, lat, oldAvg,
                   scanAt, readActive, best, bestScore>>

\* A task of parallel_search for shard i: start_span("query_shard_i").
TaskStart(r, i) ==
    /\ pc[r] = "idle"
    /\ shardOf' = [shardOf EXCEPT ![r] = i]
    /\ spans' = OpenSpan(NoSpan)
    /\ spanOf' = [spanOf EXCEPT ![r] = <<Len(spans) + 1>>]
    /\ pc' = [pc EXCEPT ![r] = "start"]
    /\ UNCHANGED <<active, total, avg, ended, lat, oldAvg, selVars>>

\* record_request_start: two atomic increments.
RecordStart(r) ==
    /\ pc[r] = "start"
    /\ active' = [active EXCEPT ![shardOf[r]] = @ + 1]
    /\ total' = [total EXCEPT ![shardOf[r]] = @ + 1]
    /\ pc' = [pc EXCEPT ![r] = "search"]
    /\ UNCHANGED <<avg, ended, shardOf, lat, oldAvg, spans, spanOf, selVars>>

\* ShardNode::search under the shard's lock; the timer measures a latency.
Search(r) ==
    /\ pc[r] = "search"
    /\ \E l \in Latencies : lat' = [lat EXCEPT ![r] = l]
    /\ pc' = [pc EXCEPT ![r] = "end"]
    /\ UNCHANGED <<active, total, avg, ended, shardOf, oldAvg, spans, spanOf, selVars>>

\* Mutant: record_request_end without the fetch_sub.
EndLoadNoDecrement(r) ==
    /\ pc[r] = "end"
    /\ oldAvg' = [oldAvg EXCEPT ![r] = avg[shardOf[r]]]
    /\ pc' = [pc EXCEPT ![r] = "store"]
    /\ UNCHANGED <<active, total, avg, ended, shardOf, lat, spans, spanOf, selVars>>

\* record_request_end: fetch_sub on active_requests, then load avg_latency_ms.
EndLoad(r) ==
    /\ pc[r] = "end"
    /\ active' = [active EXCEPT ![shardOf[r]] = @ - 1]
    /\ oldAvg' = [oldAvg EXCEPT ![r] = avg[shardOf[r]]]
    /\ pc' = [pc EXCEPT ![r] = "store"]
    /\ UNCHANGED <<total, avg, ended, shardOf, lat, spans, spanOf, selVars>>

(***************************************************************************)
(* record_request_end: store the EMA computed from the loaded value        *)
(* (success is always true here, so error_count is untouched); then the   *)
(* caller finishes its spans.                                              *)
(***************************************************************************)
EndStore(r) ==
    /\ pc[r] = "store"
    /\ avg' = [avg EXCEPT ![shardOf[r]] = Ema(oldAvg[r], lat[r])]
    /\ ended' = [ended EXCEPT ![shardOf[r]] = @ + 1]
    /\ FinishSpans({spanOf[r][x] : x \in DOMAIN spanOf[r]})
    /\ pc' = [pc EXCEPT ![r] = "done"]
    /\ UNCHANGED <<active, total, shardOf, lat, oldAvg, spanOf, selVars>>

\* Every search has returned.
Finished ==
    /\ \A r \in Requests : pc[r] = "done"
    /\ UNCHANGED vars

Next ==
    \/ \E r \in Requests :
          \/ SmartStart(r) \/ SelectBegin(r) \/ LoadActive(r) \/ LoadLatency(r)
          \/ SelectEnd(r) \/ \E i \in Shards : TaskStart(r, i)
          \/ RecordStart(r) \/ Search(r) \/ EndLoad(r) \/ EndStore(r)
    \/ Finished

Spec == Init /\ [][Next]_vars

-----------------------------------------------------------------------------
(* Properties                                                              *)

Stages == {"idle", "select", "loadActive", "loadLatency", "start", "search", "end", "store", "done"}

TypeOK ==
    /\ active \in [Shards -> Nat]
    /\ total \in [Shards -> Nat]
    /\ avg \in [Shards -> [num : Nat, n : Nat]]
    /\ ended \in [Shards -> Nat]
    /\ pc \in [Requests -> Stages]
    /\ shardOf \in [Requests -> Shards]
    /\ lat \in [Requests -> Nat]
    /\ oldAvg \in [Requests -> [num : Nat, n : Nat]]
    /\ spans \in Seq([parent : Nat, done : BOOLEAN])

\* The requests that have called record_request_start on s and whose
\* record_request_end has not yet decremented it.
InFlight(s) == {r \in Requests : pc[r] \in {"search", "end"} /\ shardOf[r] = s}

(***************************************************************************)
(* Spec 4.4 and 5: active_requests of every shard counts exactly the       *)
(* requests between their record_request_start and the fetch_sub of their *)
(* record_request_end, however smart_search calls and parallel_search     *)
(* tasks interleave; select_shard relies on it.                            *)
(***************************************************************************)
ActiveMatchesInFlight ==
    \A s \in Shards : active[s] = Cardinality(InFlight(s))

\* The score of shard s in the current state.
CurrentScore(s) == ScoreOf(active[s], avg[s])

\* Shard b has the minimum score, and no lower-indexed shard ties with it.
LeastLoaded(b) ==
    \A t \in Shards :
        \/ ScoreLess(CurrentScore(b), CurrentScore(t))
        \/ ~ScoreLess(CurrentScore(t), CurrentScore(b)) /\ b <= t

(***************************************************************************)
(* Spec 4.4: select_shard returns the shard of minimum score active +      *)
(* avg_latency_ms / 10, ties broken by the lowest index.  Checked when    *)
(* select_shard returns, against the statistics at that moment, while     *)
(* other requests' record_request_start and record_request_end run        *)
(* between its loads.                                                      *)
(***************************************************************************)
SelectIsLeastLoaded ==
    [][\A r \in Requests : SelectEnd(r) => LeastLoaded(shardOf'[r])]_vars

(***************************************************************************)
(* Spec 4.4 and 5: every record_request_end folds its latency into the     *)
(* shard's EMA: after ended[s] calls avg_latency_ms has had ended[s]       *)
(* updates.  The load and store of record_request_end are two atomic      *)
(* operations, not one.                                                    *)
(***************************************************************************)
EmaCountsEveryRequest ==
    \A s \in Shards : avg[s].n = ended[s]

=============================================================================
