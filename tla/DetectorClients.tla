-------------------------- MODULE DetectorClients --------------------------
(***************************************************************************)
(* The two programs of advanced_distributed.cpp that own a FailureDetector *)
(* and the detector thread they start, composed:                           *)
(*                                                                         *)
(*  - example_02_failure_detection: a detector with a 1000 ms timeout, three *)
(*    nodes, three rounds of heartbeats 500 ms apart, then "node2 fails":  *)
(*    a 4 s sleep with no heartbeats at all, then stop();                  *)
(*  - example_05_production_cluster: the ProductionCluster constructor     *)
(*    (a 3000 ms detector, one add_node per shard, start), its sequential  *)
(*    smart_search calls, and the destructor's stop().                    *)
(*                                                                         *)
(* A program is a sequence of instructions run by the main thread; the     *)
(* detector thread and the clock of FailureDetector run beside it.  One    *)
(* tick is 500 ms.  The searches are the smart_search steps of            *)
(* ProductionCluster.                                                      *)
(***************************************************************************)
EXTENDS FailureDetector, Sequences

CONSTANTS
    NumShards,  \* num_shards of the cluster
    NSearches,  \* n_searches: the smart_search calls, made one after another
    Latencies,  \* the latencies a shard search may take
    ShardAddr,  \* ShardAddr[i]: "shard_" + to_string(i) + ":5000"
    Ex02Nodes   \* <<"node1:5000", "node2:5000", "node3:5000">>

VARIABLES
    active, total, avg, ended, pc, shardOf, lat, oldAvg, spans, spanOf,
    lbLocked, scanAt, readActive, best, bestScore

PC == INSTANCE ProductionCluster WITH Requests <- 1..NSearches

VARIABLES
    prog,       \* the program the main thread runs
    ip,         \* the index of its next instruction
    dwake,      \* when the main thread's current sleep_for ends
    crashed     \* the nodes the program means to have failed

fdVars == <<registered, lastHeartbeat, isAlive, failureCount, now, running,
            thread, wake, confirmed, timeout>>
pcVars == <<active, total, avg, ended, pc, shardOf, lat, oldAvg, spans, spanOf,
            lbLocked, scanAt, readActive, best, bestScore>>
clientVars == <<prog, ip, dwake, crashed>>
allVars == <<fdVars, pcVars, clientVars>>

Ins(o, a) == [op |-> o, arg |-> a]

-----------------------------------------------------------------------------
(* The programs; sleep arguments are in ticks of 500 ms.                   *)

HeartbeatRound ==
    <<Ins("heartbeat", Ex02Nodes[1]), Ins("heartbeat", Ex02Nodes[2]),
      Ins("heartbeat", Ex02Nodes[3]), Ins("sleep", 1)>>

Example02 ==
    <<Ins("add_node", Ex02Nodes[1]), Ins("add_node", Ex02Nodes[2]),
      Ins("add_node", Ex02Nodes[3]), Ins("start", 0)>>
    \o HeartbeatRound \o HeartbeatRound \o HeartbeatRound
    \o <<Ins("fail", Ex02Nodes[2]), Ins("sleep", 8), Ins("stop", 0), Ins("join", 0)>>

\* The constructor: add_node("shard_<i>:5000") for each shard, then start.
ClusterCtor ==
    [i \in 1..NumShards |-> Ins("add_node", ShardAddr[i - 1])] \o <<Ins("start", 0)>>

\* The destructor: failure_detector_.stop(), which joins the detector thread.
ClusterDtor == <<Ins("stop", 0), Ins("join", 0)>>

Example05 ==
    ClusterCtor \o [i \in 1..NSearches |-> Ins("search", i)] \o ClusterDtor

\* The detector each program constructs: 1000 ms and 3000 ms, in ticks.
Programs == {[code |-> Example02, timeout |-> 2], [code |-> Example05, timeout |-> 6]}

-----------------------------------------------------------------------------
ClientInit ==
    /\ Init
    /\ PC!Init
    /\ \E p \in Programs : prog = p.code /\ timeout = p.timeout
    /\ ip = 1
    /\ dwake = 0
    /\ crashed = {}

\* The main thread is at an instruction of kind o and not asleep.
At(o) == ip <= Len(prog) /\ prog[ip].op = o /\ dwake <= now

Step == ip' = ip + 1

DriverAddNode ==
    /\ At("add_node")
    /\ AddNode(prog[ip].arg)
    /\ Step
    /\ UNCHANGED <<pcVars, prog, dwake, crashed>>

DriverHeartbeat ==
    /\ At("heartbeat")
    /\ Heartbeat(prog[ip].arg)
    /\ Step
    /\ UNCHANGED <<pcVars, prog, dwake, crashed>>

DriverStart ==
    /\ At("start")
    /\ Start
    /\ Step
    /\ UNCHANGED <<pcVars, prog, dwake, crashed>>

\* std::this_thread::sleep_for on the main thread.
DriverSleep ==
    /\ At("sleep")
    /\ dwake' = now + prog[ip].arg
    /\ Step
    /\ UNCHANGED <<fdVars, pcVars, prog, crashed>>

\* "Simulating node2 failure": from here on the program means node2 dead.
DriverFail ==
    /\ At("fail")
    /\ crashed' = crashed \cup {prog[ip].arg}
    /\ Step
    /\ UNCHANGED <<fdVars, pcVars, prog, dwake>>

DriverStop ==
    /\ At("stop")
    /\ Stop
    /\ Step
    /\ UNCHANGED <<pcVars, prog, dwake, crashed>>

\* stop()'s join returns once the detector thread has left its loop.
DriverJoin ==
    /\ At("join")
    /\ thread = "none"
    /\ Step
    /\ UNCHANGED <<fdVars, pcVars, prog, dwake, crashed>>

\* A step of the current cluster.smart_search call.
DriverSearch ==
    /\ At("search")
    /\ LET r == prog[ip].arg
       IN  \/ PC!SmartStart(r) \/ PC!SelectBegin(r) \/ PC!LoadActive(r)
           \/ PC!LoadLatency(r) \/ PC!SelectEnd(r) \/ PC!RecordStart(r)
           \/ PC!Search(r) \/ PC!EndLoad(r) \/ PC!EndStore(r)
    /\ UNCHANGED <<fdVars, clientVars>>

\* smart_search returned; the loop goes on to the next search.
DriverSearchDone ==
    /\ At("search")
    /\ pc[prog[ip].arg] = "done"
    /\ Step
    /\ UNCHANGED <<fdVars, pcVars, prog, dwake, crashed>>

(***************************************************************************)
(* Every call takes microseconds, far less than a 500 ms tick, and a       *)
(* sleep_for returns when it is due: the clock advances only while the    *)
(* main thread is blocked (in sleep_for, or in stop()'s join) and the     *)
(* detector thread is not running or asleep and not yet due.              *)
(***************************************************************************)
MainBlocked ==
    /\ ip <= Len(prog)
    /\ dwake > now \/ (prog[ip].op = "join" /\ thread # "none")

DetectorIdle == thread = "none" \/ (thread = "sleep" /\ wake > now)

\* The detector thread, and the clock.
Detector ==
    /\ LoopCheck \/ Scan \/ (Tick /\ MainBlocked /\ DetectorIdle)
    /\ UNCHANGED <<pcVars, clientVars>>

\* The program has returned.
Exited ==
    /\ ip > Len(prog)
    /\ UNCHANGED allVars

ClientNext ==
    \/ DriverAddNode \/ DriverHeartbeat \/ DriverStart \/ DriverSleep
    \/ DriverFail \/ DriverStop \/ DriverJoin \/ DriverSearch \/ DriverSearchDone
    \/ Detector \/ Exited

ClientSpec == ClientInit /\ [][ClientNext]_allVars

-----------------------------------------------------------------------------
(* Properties                                                              *)

(***************************************************************************)
(* Spec 3 and 4.5: the detector reports only failed nodes.  A registered   *)
(* node the program has not made fail is never marked not alive: in       *)
(* example_02 "node2 fails" but the program stops heartbeating every node, *)
(* and ProductionCluster never sends heartbeats for its shards at all.    *)
(***************************************************************************)
HealthyNodesStayAlive ==
    \A nd \in registered \ crashed : isAlive[nd]

=============================================================================
