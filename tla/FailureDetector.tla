-------------------------- MODULE FailureDetector --------------------------
(***************************************************************************)
(* FailureDetector of advanced_distributed.cpp: a table of NodeStatus      *)
(* records guarded by one mutex, heartbeats from the monitored nodes, and  *)
(* a detector thread that sleeps one period, then scans the table under    *)
(* the lock, while running_ is set.                                        *)
(*                                                                         *)
(* Time is a natural number of ticks; Period is the detector's sleep (1 s) *)
(* and timeout is heartbeat_timeout_, in ticks, which the constructor     *)
(* takes from Timeouts.  Each operation that takes the mutex is one       *)
(* atomic step.                                                            *)
(***************************************************************************)
EXTENDS Naturals

CONSTANTS
    Addrs,      \* node addresses that may be registered
    Timeouts,   \* the timeouts the constructor may be given
    Period,     \* the sleep_for in detect_loop
    MaxTime     \* bound on the clock, for TLC

ASSUME DetectorAssumption ==
    /\ Timeouts \subseteq Nat /\ Timeouts # {}
    /\ Period \in Nat \ {0}
    /\ MaxTime \in Nat

\* The literal 3 of `status.failure_count >= 3`.
FailureThreshold == 3

VARIABLES
    registered,     \* the keys of nodes_
    lastHeartbeat,  \* NodeStatus::last_heartbeat
    isAlive,        \* NodeStatus::is_alive
    failureCount,   \* NodeStatus::failure_count
    now,            \* steady_clock::now()
    running,        \* running_
    thread,         \* detector thread: "none", "check" (loop test), "sleep"
    wake,           \* when the detector's current sleep ends
    confirmed,      \* confirmed[addr]: times on_failure_(addr) was called
    timeout         \* heartbeat_timeout_

vars == <<registered, lastHeartbeat, isAlive, failureCount, now, running,
          thread, wake, confirmed, timeout>>

Init ==
    /\ registered = {}
    /\ lastHeartbeat = [addr \in Addrs |-> 0]
    /\ isAlive = [addr \in Addrs |-> TRUE]
    /\ failureCount = [addr \in Addrs |-> 0]
    /\ now = 0
    /\ running = FALSE
    /\ thread = "none"
    /\ wake = 0
    /\ confirmed = [addr \in Addrs |-> 0]
    /\ timeout \in Timeouts

\* add_node: (re)register with a fresh, alive status.
AddNode(addr) ==
    /\ registered' = registered \cup {addr}
    /\ lastHeartbeat' = [lastHeartbeat EXCEPT ![addr] = now]
    /\ isAlive' = [isAlive EXCEPT ![addr] = TRUE]
    /\ failureCount' = [failureCount EXCEPT ![addr] = 0]
    /\ UNCHANGED <<now, running, thread, wake, confirmed, timeout>>

\* heartbeat: a registered node is refreshed, marked alive, its count reset.
Heartbeat(addr) ==
    /\ addr \in registered
    /\ lastHeartbeat' = [lastHeartbeat EXCEPT ![addr] = now]
    /\ isAlive' = [isAlive EXCEPT ![addr] = TRUE]
    /\ failureCount' = [failureCount EXCEPT ![addr] = 0]
    /\ UNCHANGED <<registered, now, running, thread, wake, confirmed, timeout>>

\* start: set running_ and spawn the detector thread.
Start ==
    /\ thread = "none"
    /\ running' = TRUE
    /\ thread' = "check"
    /\ UNCHANGED <<registered, lastHeartbeat, isAlive, failureCount, now, wake, confirmed, timeout>>

\* stop: clear running_; its join returns once LoopCheck lets the thread exit.
Stop ==
    /\ running
    /\ running' = FALSE
    /\ UNCHANGED <<registered, lastHeartbeat, isAlive, failureCount, now, thread, wake, confirmed, timeout>>

\* `while (running_)`: go to sleep for one period, or leave the loop.
LoopCheck ==
    /\ thread = "check"
    /\ thread' = IF running THEN "sleep" ELSE "none"
    /\ wake' = now + Period
    /\ UNCHANGED <<registered, lastHeartbeat, isAlive, failureCount, now, running, confirmed, timeout>>

\* Mutant: elapsed >= timeout.
TimedOutAtTimeout(addr) == now - lastHeartbeat[addr] >= timeout

TimedOut(addr) == now - lastHeartbeat[addr] > timeout

\* Mutant: the is_alive test dropped, a dead node counted again every scan.
SuspectEveryScan(addr) == addr \in registered /\ TimedOut(addr)

\* Marked not alive by this scan: timed out and currently alive.
Suspect(addr) == addr \in registered /\ TimedOut(addr) /\ isAlive[addr]

(***************************************************************************)
(* One scan of nodes_ under the lock, after the sleep: a timed-out node    *)
(* that is alive is marked not alive and its failure_count incremented;   *)
(* when that reaches 3, on_failure_ is called.  A node already not alive   *)
(* is left as it is.                                                       *)
(***************************************************************************)
Scan ==
    /\ thread = "sleep"
    /\ wake <= now
    /\ isAlive' = [addr \in Addrs |-> IF Suspect(addr) THEN FALSE ELSE isAlive[addr]]
    /\ failureCount' = [addr \in Addrs |-> IF Suspect(addr) THEN failureCount[addr] + 1 ELSE failureCount[addr]]
    /\ confirmed' = [addr \in Addrs |->
                       IF Suspect(addr) /\ failureCount[addr] + 1 >= FailureThreshold
                       THEN confirmed[addr] + 1 ELSE confirmed[addr]]
    /\ thread' = "check"
    /\ UNCHANGED <<registered, lastHeartbeat, now, running, wake, timeout>>

\* The steady clock advances.
Tick ==
    /\ now < MaxTime
    /\ now' = now + 1
    /\ UNCHANGED <<registered, lastHeartbeat, isAlive, failureCount, running, thread, wake, confirmed, timeout>>

Next ==
    \/ \E addr \in Addrs : AddNode(addr) \/ Heartbeat(addr)
    \/ Start \/ Stop \/ LoopCheck \/ Scan \/ Tick

Spec == Init /\ [][Next]_vars

-----------------------------------------------------------------------------
(* Properties                                                              *)

TypeOK ==
    /\ registered \subseteq Addrs
    /\ lastHeartbeat \in [Addrs -> Nat]
    /\ isAlive \in [Addrs -> BOOLEAN]
    /\ failureCount \in [Addrs -> Nat]
    /\ now \in Nat
    /\ running \in BOOLEAN
    /\ thread \in {"none", "check", "sleep"}
    /\ wake \in Nat
    /\ confirmed \in [Addrs -> Nat]
    /\ timeout \in Timeouts

(***************************************************************************)
(* A node's failure_count never exceeds 1: the scan increments it only     *)
(* while is_alive holds and sets is_alive to false in the same step, and   *)
(* only heartbeat or add_node sets is_alive again, resetting the count.    *)
(* So `failure_count >= 3` never holds and on_failure_ is never called.    *)
(***************************************************************************)
FailureCountAtMostOne ==
    \A nd \in Addrs : failureCount[nd] <= 1

(***************************************************************************)
(* A registered node is marked not alive only if its last heartbeat is     *)
(* more than heartbeat_timeout_ in the past (strictly: elapsed > timeout), *)
(* however heartbeats, scans and the clock interleave.                     *)
(***************************************************************************)
SuspectedOnlyAfterTimeout ==
    \A nd \in registered : ~isAlive[nd] => now - lastHeartbeat[nd] > timeout

=============================================================================
