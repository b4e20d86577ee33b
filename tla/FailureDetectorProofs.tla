----------------------- MODULE FailureDetectorProofs -----------------------
(***************************************************************************)
(* Proofs, for every set of addresses, timeout, period and clock bound, of *)
(* the FailureDetector invariants that MCFailureDetector.cfg checks.       *)
(***************************************************************************)
EXTENDS FailureDetector, TLAPS

(***************************************************************************)
(* The inductive invariant: a node's failure_count is 0 while it is alive *)
(* and exactly 1 once a scan marked it not alive.  The scan increments     *)
(* the count only of an alive node and clears is_alive in the same step,  *)
(* and heartbeat and add_node set is_alive and reset the count together.  *)
(***************************************************************************)
CountMatchesAlive ==
    \A n \in Addrs :
        /\ isAlive[n] => failureCount[n] = 0
        /\ ~isAlive[n] => failureCount[n] = 1

IInv == TypeOK /\ CountMatchesAlive

\* Every step of the detector, the clients and the clock keeps the types.
\* The two Boolean-valued variables get steps of their own (Zenon).
LEMMA TypeStep == TypeOK /\ [Next]_vars => TypeOK'
<1> SUFFICES ASSUME TypeOK, [Next]_vars PROVE TypeOK'
  OBVIOUS
<1>1. running' \in BOOLEAN
  BY Zenon DEF TypeOK, Next, vars, AddNode, Heartbeat, Start, Stop, LoopCheck, Scan, Tick
<1>2. isAlive' \in [Addrs -> BOOLEAN]
  BY Zenon DEF TypeOK, Next, vars, AddNode, Heartbeat, Start, Stop, LoopCheck, Scan, Tick
<1>3. ASSUME NEW addr \in Addrs, AddNode(addr) PROVE TypeOK'
  BY <1>1, <1>2, <1>3 DEF AddNode, TypeOK
<1>4. ASSUME NEW addr \in Addrs, Heartbeat(addr) PROVE TypeOK'
  BY <1>1, <1>2, <1>4 DEF Heartbeat, TypeOK
<1>5. CASE Start \/ Stop \/ UNCHANGED vars
  BY <1>1, <1>2, <1>5 DEF Start, Stop, vars, TypeOK
<1>6. CASE LoopCheck
  BY <1>1, <1>2, <1>6, DetectorAssumption DEF LoopCheck, TypeOK
<1>7. CASE Scan
  <2>1. failureCount' \in [Addrs -> Nat]
    BY <1>7 DEF Scan, TypeOK
  <2>2. confirmed' \in [Addrs -> Nat]
    BY <1>7 DEF Scan, TypeOK
  <2>4. UNCHANGED <<registered, lastHeartbeat, now, wake, timeout>> /\ thread' = "check"
    BY <1>7 DEF Scan
  <2>. QED
    BY <1>1, <1>2, <2>1, <2>2, <2>4 DEF TypeOK
<1>8. CASE Tick
  BY <1>1, <1>2, <1>8 DEF Tick, TypeOK
<1>. QED
  BY <1>3, <1>4, <1>5, <1>6, <1>7, <1>8 DEF Next

\* The initial state of a fresh FailureDetector is well typed.
LEMMA TypeInit == Init => TypeOK
<1> SUFFICES ASSUME Init PROVE TypeOK
  OBVIOUS
<1>1. running \in BOOLEAN /\ isAlive \in [Addrs -> BOOLEAN]
  BY Zenon DEF Init
<1>. QED
  BY <1>1 DEF Init, TypeOK

\* The type invariant holds in every reachable state.
LEMMA TypeCorrect == Spec => []TypeOK
BY TypeInit, TypeStep, PTL DEF Spec

(***************************************************************************)
(* FailureCountAtMostOne for every instance: failure_count never exceeds   *)
(* 1, so detect_loop's `failure_count >= 3` test never holds and          *)
(* on_failure_ is never called.                                            *)
(***************************************************************************)
THEOREM FailureCountBounded == Spec => []FailureCountAtMostOne
<1>1. Init => IInv
  BY TypeInit DEF Init, IInv, CountMatchesAlive
<1>2. IInv /\ [Next]_vars => IInv'
  <2> SUFFICES ASSUME IInv, [Next]_vars PROVE IInv'
    OBVIOUS
  <2>0. TypeOK'
    BY TypeStep DEF IInv
  <2>1. ASSUME NEW addr \in Addrs, AddNode(addr) PROVE CountMatchesAlive'
    BY <2>1 DEF AddNode, IInv, TypeOK, CountMatchesAlive
  <2>2. ASSUME NEW addr \in Addrs, Heartbeat(addr) PROVE CountMatchesAlive'
    BY <2>2 DEF Heartbeat, IInv, TypeOK, CountMatchesAlive
  <2>3. ASSUME Scan PROVE CountMatchesAlive'
    <3> SUFFICES ASSUME NEW x \in Addrs
                 PROVE  /\ isAlive'[x] => failureCount'[x] = 0
                        /\ ~isAlive'[x] => failureCount'[x] = 1
      BY Zenon DEF CountMatchesAlive
    <3>1. CASE Suspect(x)
      \* The scan finds x alive, so its count was 0; it becomes 1.
      <4>1. ~isAlive'[x] /\ isAlive[x]
        BY <2>3, <3>1, Zenon DEF Scan, Suspect
      <4>2. failureCount[x] = 0
        BY <4>1, Zenon DEF IInv, CountMatchesAlive
      <4>3. failureCount'[x] = 1
        BY <2>3, <3>1, <4>2 DEF Scan
      <4>. QED
        BY <4>1, <4>3
    <3>2. CASE ~Suspect(x)
      <4>1. isAlive'[x] = isAlive[x] /\ failureCount'[x] = failureCount[x]
        BY <2>3, <3>2 DEF Scan
      <4>. QED
        BY <4>1, Zenon DEF IInv, CountMatchesAlive
    <3>. QED
      BY <3>1, <3>2
  <2>4. ASSUME Start \/ Stop \/ LoopCheck \/ Tick \/ UNCHANGED vars
        PROVE  CountMatchesAlive'
    <3>1. isAlive' = isAlive /\ failureCount' = failureCount
      BY <2>4 DEF Start, Stop, LoopCheck, Tick, vars
    <3>. QED
      BY <3>1 DEF IInv, CountMatchesAlive
  <2>. QED
    BY <2>0, <2>1, <2>2, <2>3, <2>4 DEF Next, IInv
<1>3. IInv => FailureCountAtMostOne
  <2> SUFFICES ASSUME IInv, NEW x \in Addrs PROVE failureCount[x] <= 1
    BY DEF FailureCountAtMostOne
  <2>1. CASE isAlive[x]
    <3>1. failureCount[x] = 0
      BY <2>1, Zenon DEF IInv, CountMatchesAlive
    <3>. QED
      BY <3>1
  <2>2. CASE ~isAlive[x]
    BY <2>2 DEF IInv, TypeOK, CountMatchesAlive
  <2>. QED
    BY <2>1, <2>2
<1>. QED
  BY <1>1, <1>2, <1>3, PTL DEF Spec

(***************************************************************************)
(* SuspectedOnlyAfterTimeout for every instance: detect_loop marks a       *)
(* registered node not alive only when its last heartbeat is more than     *)
(* heartbeat_timeout_ old, and the clock only moves forward, so a node     *)
(* stays suspected only while that remains true.  With the type invariant  *)
(* the property is inductive as it stands.                                 *)
(***************************************************************************)
THEOREM SuspicionJustified == Spec => []SuspectedOnlyAfterTimeout
<1> DEFINE Inv == TypeOK /\ SuspectedOnlyAfterTimeout
<1>1. Init => Inv
  BY TypeInit DEF Init, SuspectedOnlyAfterTimeout
<1>2. Inv /\ [Next]_vars => Inv'
  <2> SUFFICES ASSUME Inv, [Next]_vars PROVE Inv'
    OBVIOUS
  <2>0. TypeOK'
    BY TypeStep
  \* heartbeat_timeout_ is fixed at construction.
  <2>a. timeout' = timeout
    BY DEF Next, vars, AddNode, Heartbeat, Start, Stop, LoopCheck, Scan, Tick
  <2> SUFFICES ASSUME NEW x \in registered', ~isAlive'[x]
               PROVE  now' - lastHeartbeat'[x] > timeout
    BY <2>0, <2>a, Zenon DEF SuspectedOnlyAfterTimeout
  \* add_node and heartbeat mark their node alive, so x is another node.
  <2>1. ASSUME NEW addr \in Addrs, AddNode(addr) \/ Heartbeat(addr)
        PROVE  now' - lastHeartbeat'[x] > timeout
    <3>1. x # addr /\ x \in registered /\ ~isAlive[x]
      BY <2>1, Zenon DEF AddNode, Heartbeat, TypeOK
    <3>2. lastHeartbeat'[x] = lastHeartbeat[x] /\ now' = now
      BY <2>1, <3>1 DEF AddNode, Heartbeat, TypeOK
    <3>. QED
      BY <3>1, <3>2, Zenon DEF SuspectedOnlyAfterTimeout
  \* A node the scan marks has timed out; one it leaves was already suspected.
  <2>2. ASSUME Scan PROVE now' - lastHeartbeat'[x] > timeout
    <3>1. x \in registered /\ lastHeartbeat' = lastHeartbeat /\ now' = now
      BY <2>2 DEF Scan
    <3>2. CASE Suspect(x)
      BY <3>1, <3>2 DEF Suspect, TimedOut
    <3>3. CASE ~Suspect(x)
      <4>1. ~isAlive[x]
        BY <2>2, <3>3, Zenon DEF Scan, TypeOK
      <4>. QED
        BY <3>1, <4>1, Zenon DEF SuspectedOnlyAfterTimeout
    <3>. QED
      BY <3>2, <3>3
  \* The clock only moves forward.
  <2>3. ASSUME Tick PROVE now' - lastHeartbeat'[x] > timeout
    <3>1. x \in registered /\ ~isAlive[x]
      BY <2>3, Zenon DEF Tick
    <3>2. now - lastHeartbeat[x] > timeout
      BY <3>1, Zenon DEF SuspectedOnlyAfterTimeout
    <3>. QED
      BY <2>3, <3>2, DetectorAssumption DEF Tick, TypeOK
  <2>4. ASSUME Start \/ Stop \/ LoopCheck \/ UNCHANGED vars
        PROVE  now' - lastHeartbeat'[x] > timeout
    <3>1. x \in registered /\ ~isAlive[x]
      BY <2>4, Zenon DEF Start, Stop, LoopCheck, vars
    <3>2. now' = now /\ lastHeartbeat' = lastHeartbeat
      BY <2>4 DEF Start, Stop, LoopCheck, vars
    <3>. QED
      BY <3>1, <3>2, Zenon DEF SuspectedOnlyAfterTimeout
  <2>. QED
    BY <2>1, <2>2, <2>3, <2>4 DEF Next
<1>. QED
  BY <1>1, <1>2, PTL DEF Spec

=============================================================================
