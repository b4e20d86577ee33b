---------------------- MODULE ProductionClusterProofs ----------------------
(***************************************************************************)
(* Proof, for every number of shards, finite set of concurrent requests   *)
(* and set of latencies, that the balancer's active_requests counts the   *)
(* requests in flight (the invariant MCProductionCluster.cfg checks).     *)
(***************************************************************************)
EXTENDS ProductionCluster, FiniteSetTheorems, TLAPS

\* The part of the state active_requests depends on, with its types.
CountTypes ==
    /\ active \in [Shards -> Nat]
    /\ pc \in [Requests -> Stages]
    /\ shardOf = [u \in Requests |-> shardOf[u]]

(***************************************************************************)
(* The inductive invariant.  active_requests cannot be typed as a natural *)
(* number without the count: record_request_end's fetch_sub subtracts 1,  *)
(* and only the count says the shard's counter is positive then.          *)
(***************************************************************************)
IInv == CountTypes /\ ActiveMatchesInFlight

\* The requests in flight on a shard are finitely many.
LEMMA InFlightFinite ==
    ASSUME NEW s
    PROVE  IsFiniteSet(InFlight(s))
BY ClusterAssumption, FS_Subset DEF InFlight

\* A step that moves no request into or out of {"search", "end"} and
\* moves no request in flight to another shard keeps every InFlight set.
LEMMA InFlightKept ==
    ASSUME CountTypes, CountTypes',
           \A r \in Requests : (pc'[r] \in {"search", "end"}) <=> (pc[r] \in {"search", "end"}),
           \A r \in Requests : pc[r] \in {"search", "end"} => shardOf'[r] = shardOf[r]
    PROVE  \A s \in Shards : InFlight(s)' = InFlight(s)
BY DEF InFlight, CountTypes

\* A request moves from stage a to stage b, no request changes shard
\* while in flight, and active_requests is left alone: the counts hold.
LEMMA MoveStep ==
    ASSUME IInv, NEW r \in Requests, NEW a, NEW b,
           {a, b} \subseteq Stages,
           (a \in {"search", "end"}) <=> (b \in {"search", "end"}),
           pc[r] = a, pc' = [pc EXCEPT ![r] = b],
           UNCHANGED active,
           \E x : shardOf' = [shardOf EXCEPT ![r] = x],
           a \in {"search", "end"} => UNCHANGED shardOf
    PROVE  IInv'
<1>1. CountTypes'
  BY DEF IInv, CountTypes
<1>2. \A u \in Requests : (pc'[u] \in {"search", "end"}) <=> (pc[u] \in {"search", "end"})
  BY DEF IInv, CountTypes
<1>3. \A u \in Requests : pc[u] \in {"search", "end"} => shardOf'[u] = shardOf[u]
  BY DEF IInv, CountTypes
<1>4. \A s \in Shards : InFlight(s)' = InFlight(s)
  BY <1>1, <1>2, <1>3, InFlightKept DEF IInv
<1>. QED
  BY <1>1, <1>4 DEF IInv, ActiveMatchesInFlight

\* smart_search's start, the steps of select_shard and a task's start move a request
\* between stages before record_request_start; the shard search and the
\* EMA store keep a request in flight or out of it.
LEMMA QuietStep ==
    ASSUME IInv, NEW r \in Requests,
           \/ SmartStart(r) \/ SelectBegin(r) \/ LoadActive(r) \/ LoadLatency(r)
           \/ SelectEnd(r) \/ \E i \in Shards : TaskStart(r, i)
           \/ Search(r) \/ EndStore(r)
    PROVE  IInv'
<1>0. \A x : x = shardOf[r] => shardOf = [shardOf EXCEPT ![r] = x]
  BY DEF IInv, CountTypes
<1>1. CASE SmartStart(r)
  <2>1. pc[r] = "idle" /\ pc' = [pc EXCEPT ![r] = "select"] /\ UNCHANGED <<active, shardOf>>
    BY <1>1 DEF SmartStart
  <2>. QED
    BY <1>0, <2>1, MoveStep DEF Stages
<1>2. CASE SelectBegin(r)
  <2>1. pc[r] = "select" /\ pc' = [pc EXCEPT ![r] = "loadActive"] /\ UNCHANGED <<active, shardOf>>
    BY <1>2 DEF SelectBegin
  <2>. QED
    BY <1>0, <2>1, MoveStep DEF Stages
<1>6. CASE LoadActive(r)
  <2>1. pc[r] = "loadActive" /\ pc' = [pc EXCEPT ![r] = "loadLatency"] /\ UNCHANGED <<active, shardOf>>
    BY <1>6 DEF LoadActive
  <2>. QED
    BY <1>0, <2>1, MoveStep DEF Stages
<1>7. CASE LoadLatency(r)
  <2>1. pc[r] = "loadLatency" /\ pc' = [pc EXCEPT ![r] = "loadActive"] /\ UNCHANGED <<active, shardOf>>
    BY <1>7 DEF LoadLatency
  <2>. QED
    BY <1>0, <2>1, MoveStep DEF Stages
<1>8. CASE SelectEnd(r)
  <2>1. pc[r] = "loadActive" /\ pc' = [pc EXCEPT ![r] = "start"] /\ UNCHANGED active
        /\ shardOf' = [shardOf EXCEPT ![r] = best[r]]
    BY <1>8 DEF SelectEnd
  <2>. QED
    BY <2>1, MoveStep DEF Stages
<1>3. ASSUME NEW i \in Shards, TaskStart(r, i) PROVE IInv'
  <2>1. pc[r] = "idle" /\ pc' = [pc EXCEPT ![r] = "start"] /\ UNCHANGED active
        /\ shardOf' = [shardOf EXCEPT ![r] = i]
    BY <1>3 DEF TaskStart
  <2>. QED
    BY <2>1, MoveStep DEF Stages
<1>4. CASE Search(r)
  <2>1. pc[r] = "search" /\ pc' = [pc EXCEPT ![r] = "end"] /\ UNCHANGED <<active, shardOf>>
    BY <1>4 DEF Search
  <2>. QED
    BY <1>0, <2>1, MoveStep DEF Stages
<1>5. CASE EndStore(r)
  <2>1. pc[r] = "store" /\ pc' = [pc EXCEPT ![r] = "done"] /\ UNCHANGED <<active, shardOf>>
    BY <1>5 DEF EndStore
  <2>. QED
    BY <1>0, <2>1, MoveStep DEF Stages
<1>. QED
  BY <1>1, <1>2, <1>3, <1>4, <1>5, <1>6, <1>7, <1>8

(***************************************************************************)
(* record_request_start: the request enters the in-flight set of its      *)
(* shard, and the increment of active_requests counts it.                 *)
(***************************************************************************)
LEMMA RecordStartStep ==
    ASSUME IInv, NEW r \in Requests, RecordStart(r)
    PROVE  IInv'
<1>1. /\ pc[r] = "start" /\ pc' = [pc EXCEPT ![r] = "search"]
      /\ active' = [active EXCEPT ![shardOf[r]] = @ + 1]
      /\ UNCHANGED shardOf
  BY DEF RecordStart
<1>2. CountTypes'
  <2>1. active' \in [Shards -> Nat]
    <3>1. CASE shardOf[r] \in Shards
      BY <1>1, <3>1 DEF IInv, CountTypes
    <3>2. CASE shardOf[r] \notin Shards
      BY <1>1, <3>2 DEF IInv, CountTypes
    <3>. QED
      BY <3>1, <3>2
  <2>. QED
    BY <1>1, <2>1 DEF IInv, CountTypes, Stages
<1>3. ASSUME NEW s \in Shards PROVE active'[s] = Cardinality(InFlight(s)')
  <2>1. CASE s = shardOf[r]
    <3>1. InFlight(s)' = InFlight(s) \cup {r} /\ r \notin InFlight(s)
      BY <1>1, <2>1 DEF IInv, CountTypes, InFlight
    <3>2. Cardinality(InFlight(s)') = Cardinality(InFlight(s)) + 1
      BY <3>1, InFlightFinite, FS_AddElement
    <3>. QED
      BY <1>1, <2>1, <3>2 DEF IInv, CountTypes, ActiveMatchesInFlight
  <2>2. CASE s # shardOf[r]
    <3>1. InFlight(s)' = InFlight(s)
      BY <1>1, <2>2 DEF IInv, CountTypes, InFlight
    <3>. QED
      BY <1>1, <2>2, <3>1 DEF IInv, CountTypes, ActiveMatchesInFlight
  <2>. QED
    BY <2>1, <2>2
<1>. QED
  BY <1>2, <1>3 DEF IInv, ActiveMatchesInFlight

(***************************************************************************)
(* record_request_end's fetch_sub (with the load): the request leaves the *)
(* in-flight set of its shard, which held it, so the counter was positive *)
(* and its decrement keeps the count.                                      *)
(***************************************************************************)
LEMMA EndLoadStep ==
    ASSUME IInv, NEW r \in Requests, EndLoad(r)
    PROVE  IInv'
<1>1. /\ pc[r] = "end" /\ pc' = [pc EXCEPT ![r] = "store"]
      /\ active' = [active EXCEPT ![shardOf[r]] = @ - 1]
      /\ UNCHANGED shardOf
  BY DEF EndLoad
<1>2. ASSUME NEW s \in Shards, s = shardOf[r]
      PROVE  /\ InFlight(s)' = InFlight(s) \ {r}
             /\ Cardinality(InFlight(s)') = Cardinality(InFlight(s)) - 1
             /\ Cardinality(InFlight(s)') \in Nat
  <2>1. InFlight(s)' = InFlight(s) \ {r} /\ r \in InFlight(s)
    BY <1>1, <1>2 DEF IInv, CountTypes, InFlight
  <2>2. IsFiniteSet(InFlight(s) \ {r})
    BY InFlightFinite, FS_RemoveElement
  <2>. QED
    BY <2>1, <2>2, InFlightFinite, FS_RemoveElement, FS_CardinalityType
<1>3. ASSUME NEW s \in Shards, s # shardOf[r]
      PROVE  InFlight(s)' = InFlight(s)
  BY <1>1, <1>3 DEF IInv, CountTypes, InFlight
<1>4. active' \in [Shards -> Nat]
  <2>1. CASE shardOf[r] \in Shards
    <3>1. active[shardOf[r]] - 1 \in Nat
      BY <1>2, <2>1 DEF IInv, ActiveMatchesInFlight
    <3>. QED
      BY <1>1, <2>1, <3>1 DEF IInv, CountTypes
  <2>2. CASE shardOf[r] \notin Shards
    BY <1>1, <2>2 DEF IInv, CountTypes
  <2>. QED
    BY <2>1, <2>2
<1>5. CountTypes'
  BY <1>1, <1>4 DEF IInv, CountTypes, Stages
<1>6. ActiveMatchesInFlight'
  BY <1>1, <1>2, <1>3 DEF IInv, CountTypes, ActiveMatchesInFlight
<1>. QED
  BY <1>5, <1>6 DEF IInv

\* No request has started: every counter is 0 and nothing is in flight.
LEMMA InitIInv == Init => IInv
<1> SUFFICES ASSUME Init PROVE IInv
  OBVIOUS
<1>1. \A s \in Shards : InFlight(s) = {}
  BY DEF Init, InFlight
<1>. QED
  BY <1>1, FS_EmptySet DEF Init, IInv, CountTypes, Stages, ActiveMatchesInFlight

\* IInv is inductive.
LEMMA IInvStep == IInv /\ [Next]_vars => IInv'
<1> SUFFICES ASSUME IInv, [Next]_vars PROVE IInv'
  OBVIOUS
<1>1. ASSUME NEW r \in Requests,
             \/ SmartStart(r) \/ SelectBegin(r) \/ LoadActive(r) \/ LoadLatency(r)
             \/ SelectEnd(r) \/ \E i \in Shards : TaskStart(r, i)
             \/ Search(r) \/ EndStore(r)
      PROVE  IInv'
  BY <1>1, QuietStep
<1>2. ASSUME NEW r \in Requests, RecordStart(r) PROVE IInv'
  BY <1>2, RecordStartStep
<1>3. ASSUME NEW r \in Requests, EndLoad(r) PROVE IInv'
  BY <1>3, EndLoadStep
<1>4. CASE Finished \/ UNCHANGED vars
  BY <1>4 DEF Finished, vars, IInv, CountTypes, ActiveMatchesInFlight, InFlight
<1>. QED
  BY <1>1, <1>2, <1>3, <1>4 DEF Next

(***************************************************************************)
(* ActiveMatchesInFlight for every number of shards and finite set of     *)
(* requests: however smart_search calls and parallel_search tasks         *)
(* interleave their record_request_start and record_request_end,          *)
(* active_requests of a shard is the number of requests between the two,  *)
(* the count select_shard relies on.                                       *)
(***************************************************************************)
THEOREM ActiveCountCorrect == Spec => []ActiveMatchesInFlight
<1>1. IInv => ActiveMatchesInFlight
  BY DEF IInv
<1>. QED
  BY <1>1, InitIInv, IInvStep, PTL DEF Spec

=============================================================================
