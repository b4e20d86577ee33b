---------------------- MODULE CheckpointManagerProofs ----------------------
(***************************************************************************)
(* Proofs, for every max_checkpoints_, shard size bound and call bound, of *)
(* the CheckpointManager invariants that MCCheckpointManager.cfg checks,   *)
(* and of its refinement of the abstract CheckpointStore.                 *)
(***************************************************************************)
EXTENDS CheckpointManager, SequenceTheorems, TLAPS

PcValues == {"none", "check", "sleep", "create", "record", "idle", "join"}

Rec == [id : Nat, nv : 0..MaxVectors]

(***************************************************************************)
(* mutex_ is held exactly by a thread between the save and the record of  *)
(* its create_checkpoint, and that thread's id is the next id of the list *)
(* and its file is on disk: no other create_checkpoint or restore_latest  *)
(* can run while the id is allocated and not yet pushed back.             *)
(***************************************************************************)
LockDiscipline ==
    \A t \in Threads :
        /\ pc[t] = "record" <=> lock = t
        /\ pc[t] = "record" => curId[t] = NextId(list) /\ curId[t] \in DOMAIN disk

(***************************************************************************)
(* The ids of the list increase between any two positions, not only       *)
(* between neighbours: cleanup_old removes the files of a prefix, and the *)
(* files of the suffix it keeps must differ from them.                    *)
(***************************************************************************)
Sorted ==
    \A i, j \in 1..Len(list) : i < j => list[i].id < list[j].id

\* The inductive invariant behind RetainedOrdered and RetainedFilesExist.
IInv ==
    /\ TypeOK
    /\ pc \in [Threads -> PcValues]
    /\ Len(list) <= MaxCheckpoints
    /\ Sorted
    /\ RetainedFilesExist
    /\ LockDiscipline

-----------------------------------------------------------------------------
(* The list operations of create_checkpoint.                               *)

\* cleanup_old keeps the last EvictCount(l) records of l, at most
\* max_checkpoints_ of them, in order.
LEMMA RetainedLemma ==
    ASSUME NEW l \in Seq(Rec)
    PROVE  /\ Retained(l) \in Seq(Rec)
           /\ Len(Retained(l)) = Len(l) - EvictCount(l)
           /\ Len(Retained(l)) <= MaxCheckpoints
           /\ \A i \in 1..Len(Retained(l)) : Retained(l)[i] = l[i + EvictCount(l)]
<1>1. EvictCount(l) \in 0..Len(l)
  BY CheckpointAssumption DEF EvictCount
<1>2. Len(l) - EvictCount(l) <= MaxCheckpoints
  BY CheckpointAssumption DEF EvictCount
<1>3. Retained(l) \in Seq(Rec)
  BY <1>1 DEF Retained
<1>. QED
  BY <1>1, <1>2, <1>3 DEF Retained

\* The list create_checkpoint leaves is the one the abstract Create makes.
LEMMA NewestLemma ==
    ASSUME NEW l \in Seq(Rec)
    PROVE  Retained(l) = Store!Newest(l)
<1>1. CASE Len(l) <= MaxCheckpoints
  <2>1. EvictCount(l) = 0
    BY <1>1, CheckpointAssumption DEF EvictCount
  <2>. QED
    BY <1>1, <2>1 DEF Retained, Store!Newest
<1>2. CASE Len(l) > MaxCheckpoints
  <2>1. EvictCount(l) = Len(l) - MaxCheckpoints
    BY <1>2 DEF EvictCount
  <2>. QED
    BY <1>2, <2>1, CheckpointAssumption DEF Retained, Store!Newest
<1>. QED
  BY <1>1, <1>2, CheckpointAssumption

-----------------------------------------------------------------------------
(* The inductive invariant.                                                *)

\* A fresh manager: empty list, no file, mutex_ free, no thread started.
LEMMA InitIInv == Init => IInv
<1> SUFFICES ASSUME Init PROVE IInv
  OBVIOUS
<1>1. running \in BOOLEAN /\ ret \in BOOLEAN
  BY Zenon DEF Init
<1>. QED
  BY <1>1, CheckpointAssumption DEF Init, IInv, TypeOK, Threads, ShardIds, PcValues,
     Sorted, RetainedFilesExist, LockDiscipline

\* The user steps that leave the list, the files and mutex_ alone, and
\* move no thread into or out of "record".
LEMMA QuietStep ==
    ASSUME IInv,
           Write \/ Rebind \/ Start \/ Stop \/ Join \/ LoopCheck \/ Wake \/ CallCreate
    PROVE  IInv'
<1>1. UNCHANGED <<list, disk, lock, curId, ret>>
  BY DEF Write, Rebind, Start, Stop, Join, LoopCheck, Wake, CallCreate
<1>2. running' \in BOOLEAN
  BY Zenon DEF IInv, TypeOK, Write, Rebind, Start, Stop, Join, LoopCheck, Wake, CallCreate
<1>3. /\ pc' \in [Threads -> PcValues]
      /\ pc'["bg"] \in {"none", "check", "sleep", "create", "record"}
      /\ pc'["user"] \in {"idle", "join", "create", "record"}
      /\ \A t \in Threads : pc'[t] = "record" <=> pc[t] = "record"
  BY DEF IInv, TypeOK, Threads, PcValues,
     Write, Rebind, Start, Stop, Join, LoopCheck, Wake, CallCreate
<1>4. size' \in [ShardIds -> 0..MaxVectors] /\ target' \in ShardIds
  <2>1. CASE Write
    BY <2>1, CheckpointAssumption DEF IInv, TypeOK, ShardIds, Write
  <2>2. CASE ~Write
    BY <2>2 DEF IInv, TypeOK, ShardIds, Rebind, Start, Stop, Join, LoopCheck, Wake, CallCreate
  <2>. QED
    BY <2>1, <2>2
<1>5. calls' \in 0..MaxCalls
  <2>1. CASE Wake /\ running
    <3>1. calls' = calls + 1 /\ calls < MaxCalls
      BY <2>1, Zenon DEF Wake
    <3>. QED
      BY <3>1, CheckpointAssumption DEF IInv, TypeOK
  <2>3. CASE Wake /\ ~running
    <3>1. calls' = calls
      BY <2>3, Zenon DEF Wake
    <3>. QED
      BY <3>1 DEF IInv, TypeOK
  <2>2. CASE ~Wake
    BY <2>2, CheckpointAssumption DEF IInv, TypeOK, Write, Rebind, Start, Stop, Join,
       LoopCheck, CallCreate
  <2>. QED
    BY <2>1, <2>2, <2>3
<1>. QED
  BY <1>1, <1>2, <1>3, <1>4, <1>5 DEF IInv, TypeOK, Sorted, RetainedFilesExist, LockDiscipline

\* The id create_checkpoint allocates is a natural number.
LEMMA NextIdNat ==
    ASSUME NEW l \in Seq(Rec)
    PROVE  NextId(l) \in Nat
<1>1. CASE l = <<>>
  BY <1>1 DEF NextId
<1>2. CASE l # <<>>
  <2>1. Len(l) \in 1..Len(l)
    BY <1>2, EmptySeq
  <2>2. l[Len(l)] \in Rec
    BY <2>1, ElementOfSeq
  <2>. QED
    BY <1>2, <2>2 DEF NextId, Rec
<1>. QED
  BY <1>1, <1>2

\* Where a create_checkpoint returns to is not inside it.
LEMMA AfterNotRecord ==
    ASSUME NEW t \in Threads
    PROVE  /\ After(t) \in PcValues \ {"record"}
           /\ t = "bg" => After(t) \in {"none", "check", "sleep", "create", "record"}
           /\ t = "user" => After(t) \in {"idle", "join", "create", "record"}
BY DEF After, Threads, PcValues

(***************************************************************************)
(* create_checkpoint's save: it runs only with mutex_ free, so no thread  *)
(* is between save and record; a successful save takes mutex_ and writes  *)
(* the file of the next id, a failed one releases mutex_ and returns.     *)
(***************************************************************************)
LEMMA CreateSaveStep ==
    ASSUME IInv, NEW t \in Threads, CreateSave(t)
    PROVE  IInv'
<1>1. UNCHANGED <<size, target, list, running, calls>> /\ pc[t] = "create" /\ lock = "free"
  BY DEF CreateSave
<1>2. \A u \in Threads : pc[u] # "record"
  BY <1>1 DEF IInv, LockDiscipline, Threads
<1>3. running' \in BOOLEAN
  BY <1>1 DEF IInv, TypeOK
<1>4. CASE /\ disk' = WriteFile(disk, NextId(list), size[target])
           /\ curId' = [curId EXCEPT ![t] = NextId(list)]
           /\ lock' = t
           /\ pc' = [pc EXCEPT ![t] = "record"]
           /\ UNCHANGED ret
  <2>1. NextId(list) \in Nat
    BY NextIdNat DEF IInv, TypeOK, Rec
  <2>2. DOMAIN disk' = DOMAIN disk \cup {NextId(list)}
        /\ \A i \in DOMAIN disk' : disk'[i] \in 0..MaxVectors
    BY <1>4 DEF WriteFile, IInv, TypeOK
  <2>3. TypeOK'
    BY <1>1, <1>3, <1>4, <2>1, <2>2 DEF IInv, TypeOK, Threads
  <2>4. pc' \in [Threads -> PcValues]
    BY <1>4 DEF IInv, PcValues
  <2>5. LockDiscipline'
    BY <1>1, <1>2, <1>4, <2>1, <2>2 DEF IInv, TypeOK, LockDiscipline, Threads
  <2>. QED
    BY <1>1, <2>2, <2>3, <2>4, <2>5 DEF IInv, Sorted, RetainedFilesExist
<1>5. CASE /\ pc' = [pc EXCEPT ![t] = After(t)]
           /\ ret' = IF t = "user" THEN FALSE ELSE ret
           /\ UNCHANGED <<disk, curId, lock>>
  <2>1. ret' \in BOOLEAN
    BY <1>5 DEF IInv, TypeOK
  <2>2. TypeOK'
    BY <1>1, <1>3, <1>5, <2>1, AfterNotRecord DEF IInv, TypeOK, Threads
  <2>3. pc' \in [Threads -> PcValues]
    BY <1>5, AfterNotRecord DEF IInv
  <2>4. LockDiscipline'
    BY <1>1, <1>2, <1>5, AfterNotRecord DEF IInv, LockDiscipline, Threads
  <2>. QED
    BY <1>1, <1>5, <2>2, <2>3, <2>4 DEF IInv, Sorted, RetainedFilesExist
<1>. QED
  BY <1>4, <1>5 DEF CreateSave

(***************************************************************************)
(* create_checkpoint's record: the thread holds mutex_, so its id is the  *)
(* next one and exceeds every id of the list; the list with the new       *)
(* record is sorted, so the records cleanup_old keeps have ids other than *)
(* those of the files it removes.                                          *)
(***************************************************************************)
LEMMA CreateRecordStep ==
    ASSUME IInv, NEW t \in Threads, CreateRecord(t)
    PROVE  IInv'
<1> DEFINE r == [id |-> curId[t], nv |-> size[target]]
           l == Append(list, r)
           k == EvictCount(l)
<1>1. /\ pc[t] = "record" /\ lock = t
      /\ curId[t] = NextId(list) /\ curId[t] \in DOMAIN disk
  BY DEF CreateRecord, IInv, LockDiscipline
<1>2. \A u \in Threads \ {t} : pc[u] # "record"
  BY <1>1 DEF IInv, LockDiscipline
<1>3. /\ list' = Retained(l)
      /\ disk' = RemoveFiles(disk, Evicted(l))
      /\ lock' = "free"
      /\ pc' = [pc EXCEPT ![t] = After(t)]
      /\ ret' = IF t = "user" THEN TRUE ELSE ret
      /\ UNCHANGED <<size, target, running, curId, calls>>
  BY DEF CreateRecord
<1>4. r \in Rec
  BY DEF IInv, TypeOK, Rec
<1>5. /\ l \in Seq(Rec)
      /\ Len(l) = Len(list) + 1
      /\ \A i \in 1..Len(list) : l[i] = list[i]
      /\ l[Len(l)] = r
  BY <1>4, AppendProperties DEF IInv, TypeOK, Rec
<1>6. \A m \in 1..Len(l) : l[m].id \in Nat
  <2> SUFFICES ASSUME NEW m \in 1..Len(l) PROVE l[m].id \in Nat
    OBVIOUS
  <2>1. l[m] \in Rec
    BY <1>5, ElementOfSeq
  <2>. QED
    BY <2>1 DEF Rec
<1>7. \A i, j \in 1..Len(l) : i < j => l[i].id < l[j].id
  <2> SUFFICES ASSUME NEW i \in 1..Len(l), NEW j \in 1..Len(l), i < j
               PROVE  l[i].id < l[j].id
    OBVIOUS
  <2>0. Len(list) \in Nat
    BY DEF IInv, TypeOK
  <2>1. CASE j <= Len(list)
    BY <1>5, <2>0, <2>1 DEF IInv, Sorted
  <2>2. CASE j = Len(l)
    <3>1. Len(list) \in 1..Len(list) /\ list # <<>> /\ i \in 1..Len(list)
      BY <1>5, <2>0, <2>2
    <3>2. l[j].id = list[Len(list)].id + 1
      BY <1>1, <1>5, <2>2, <3>1 DEF NextId
    <3>3. l[i].id <= list[Len(list)].id
      <4>1. CASE i = Len(list)
        BY <1>5, <1>6, <3>1, <4>1
      <4>2. CASE i < Len(list)
        BY <1>5, <1>6, <2>0, <3>1, <4>2 DEF IInv, Sorted
      <4>. QED
        BY <3>1, <4>1, <4>2, <2>0
    <3>. QED
      BY <1>6, <2>2, <3>2, <3>3
  <2>. QED
    BY <1>5, <2>0, <2>1, <2>2
<1>8. \A j \in 1..Len(l) : l[j].id \in DOMAIN disk
  BY <1>1, <1>5 DEF IInv, RetainedFilesExist
<1>9. k \in 0..Len(l)
  BY <1>5, CheckpointAssumption DEF EvictCount
<1>10. /\ list' \in Seq(Rec)
       /\ Len(list') = Len(l) - k
       /\ Len(list') <= MaxCheckpoints
       /\ \A i \in 1..Len(list') : list'[i] = l[i + k] /\ i + k \in 1..Len(l)
  <2>1. Retained(l) \in Seq(Rec) /\ Len(Retained(l)) = Len(l) - k
        /\ Len(Retained(l)) <= MaxCheckpoints
        /\ \A i \in 1..Len(Retained(l)) : Retained(l)[i] = l[i + k]
    BY <1>5, RetainedLemma
  <2>. QED
    BY <1>3, <1>5, <1>9, <2>1
<1>11. Sorted'
  <2> SUFFICES ASSUME NEW i \in 1..Len(list'), NEW j \in 1..Len(list'), i < j
               PROVE  list'[i].id < list'[j].id
    BY DEF Sorted
  <2>1. i + k < j + k /\ i + k \in 1..Len(l) /\ j + k \in 1..Len(l)
    BY <1>9, <1>10
  <2>. QED
    BY <1>7, <1>10, <2>1
<1>12. RetainedFilesExist'
  <2> SUFFICES ASSUME NEW i \in 1..Len(list')
               PROVE  list'[i].id \in DOMAIN disk \ Evicted(l)
    BY <1>3 DEF RetainedFilesExist, RemoveFiles
  <2>1. list'[i].id = l[i + k].id /\ i + k \in 1..Len(l)
    BY <1>10
  <2>2. \A m \in 1..k : l[m].id # l[i + k].id
    <3> SUFFICES ASSUME NEW m \in 1..k PROVE l[m].id # l[i + k].id
      OBVIOUS
    <3>1. m \in 1..Len(l) /\ m < i + k
      BY <1>9, <2>1
    <3>2. l[m].id < l[i + k].id
      BY <1>7, <2>1, <3>1
    <3>. QED
      BY <1>6, <2>1, <3>1, <3>2
  <2>3. list'[i].id \notin Evicted(l)
    BY <2>1, <2>2 DEF Evicted
  <2>. QED
    BY <1>8, <2>1, <2>3
<1>13. TypeOK'
  <2>1. ret' \in BOOLEAN /\ running' \in BOOLEAN
    BY <1>3 DEF IInv, TypeOK
  <2>2. DOMAIN disk' \subseteq Nat /\ \A i \in DOMAIN disk' : disk'[i] \in 0..MaxVectors
    BY <1>3 DEF RemoveFiles, IInv, TypeOK
  <2>. QED
    BY <1>3, <1>10, <2>1, <2>2, AfterNotRecord DEF IInv, TypeOK, Rec, Threads
<1>14. pc' \in [Threads -> PcValues] /\ LockDiscipline'
  BY <1>2, <1>3, AfterNotRecord DEF IInv, LockDiscipline, Threads
<1>. QED
  BY <1>10, <1>11, <1>12, <1>13, <1>14 DEF IInv

\* restore_latest changes only the shard's size, to a size a file holds.
LEMMA RestoreStep ==
    ASSUME IInv, RestoreLatest
    PROVE  IInv'
<1>1. UNCHANGED <<target, disk, list, lock, running, pc, curId>>
  BY DEF RestoreLatest
<1>2. ret' \in BOOLEAN /\ running' \in BOOLEAN
  BY <1>1, Zenon DEF RestoreLatest, IInv, TypeOK
<1>3. calls' \in 0..MaxCalls
  BY CheckpointAssumption DEF RestoreLatest, IInv, TypeOK
<1>4. size' \in [ShardIds -> 0..MaxVectors]
  BY DEF RestoreLatest, IInv, TypeOK
<1>. QED
  BY <1>1, <1>2, <1>3, <1>4 DEF IInv, TypeOK, Sorted, RetainedFilesExist, LockDiscipline

\* A restart is a fresh manager over the files left on disk.
LEMMA RestartStep ==
    ASSUME IInv, Restart
    PROVE  IInv'
<1>1. running' \in BOOLEAN /\ ret' \in BOOLEAN
  BY Zenon DEF Restart
<1>. QED
  BY <1>1, CheckpointAssumption DEF Restart, IInv, TypeOK, Threads, ShardIds, PcValues,
     Sorted, RetainedFilesExist, LockDiscipline

\* IInv is inductive.
LEMMA IInvStep == IInv /\ [Next]_vars => IInv'
<1> SUFFICES ASSUME IInv, [Next]_vars PROVE IInv'
  OBVIOUS
<1>1. CASE Write \/ Rebind \/ Start \/ Stop \/ Join \/ LoopCheck \/ Wake \/ CallCreate
  BY <1>1, QuietStep
<1>2. CASE RestoreLatest
  BY <1>2, RestoreStep
<1>3. CASE Restart
  BY <1>3, RestartStep
<1>4. ASSUME NEW t \in Threads, CreateSave(t) PROVE IInv'
  BY <1>4, CreateSaveStep
<1>5. ASSUME NEW t \in Threads, CreateRecord(t) PROVE IInv'
  BY <1>5, CreateRecordStep
<1>6. CASE UNCHANGED vars
  BY <1>6 DEF vars, IInv, TypeOK, Sorted, RetainedFilesExist, LockDiscipline
<1>. QED
  BY <1>1, <1>2, <1>3, <1>4, <1>5, <1>6 DEF Next

-----------------------------------------------------------------------------
(* The theorems.                                                           *)

\* The inductive invariant holds in every reachable state.
LEMMA IInvHolds == Spec => []IInv
BY InitIInv, IInvStep, PTL DEF Spec

(***************************************************************************)
(* RetainedOrdered for every max_checkpoints_: create_checkpoint and       *)
(* cleanup_old, run by the background and the user thread interleaved and *)
(* across restarts, keep at most max_checkpoints_ records with strictly   *)
(* increasing ids.                                                         *)
(***************************************************************************)
THEOREM RetainedOrderedHolds == Spec => []RetainedOrdered
<1>1. IInv => RetainedOrdered
  BY DEF IInv, Sorted, RetainedOrdered
<1>. QED
  BY <1>1, IInvHolds, PTL

(***************************************************************************)
(* RetainedFilesExist for every instance: cleanup_old removes only the    *)
(* files of the records it erases, so every retained checkpoint's file is *)
(* on disk for restore_latest to load.                                     *)
(***************************************************************************)
THEOREM RetainedFilesExistHolds == Spec => []RetainedFilesExist
<1>1. IInv => RetainedFilesExist
  BY DEF IInv
<1>. QED
  BY <1>1, IInvHolds, PTL

-----------------------------------------------------------------------------
(* The refinement of CheckpointStore.                                      *)

(***************************************************************************)
(* A step of the manager is a step of the abstract store or leaves the    *)
(* list alone: create_checkpoint's record is a creation, since mutex_ has *)
(* kept its id the next one since the save, and a restart forgets.        *)
(***************************************************************************)
LEMMA RefineStep == IInv /\ [Next]_vars => [Store!Next]_list
<1> SUFFICES ASSUME IInv, [Next]_vars PROVE [Store!Next]_list
  OBVIOUS
<1>1. ASSUME NEW t \in Threads, CreateRecord(t) PROVE Store!Create(size[target])
  <2> DEFINE l == Append(list, [id |-> curId[t], nv |-> size[target]])
  <2>1. curId[t] = Store!Fresh(list)
    BY <1>1 DEF CreateRecord, IInv, LockDiscipline, NextId, Store!Fresh
  <2>2. l \in Seq(Rec)
    BY AppendProperties DEF IInv, TypeOK, Rec
  <2>3. list' = Store!Newest(l)
    BY <1>1, <2>2, NewestLemma DEF CreateRecord
  <2>. QED
    BY <2>1, <2>3 DEF Store!Create
<1>2. ASSUME NEW t \in Threads, CreateRecord(t) PROVE Store!Next
  <2>1. size[target] \in 0..MaxVectors
    BY DEF IInv, TypeOK, ShardIds
  <2>. QED
    BY <1>1, <1>2, <2>1 DEF Store!Next
<1>3. CASE Restart
  BY <1>3 DEF Restart, Store!Next, Store!Forget
<1>4. CASE ~Restart /\ ~\E t \in Threads : CreateRecord(t)
  BY <1>4 DEF Next, vars, Write, Rebind, Start, Stop, Join, LoopCheck, Wake,
     CallCreate, RestoreLatest, CreateSave
<1>. QED
  BY <1>2, <1>3, <1>4

(***************************************************************************)
(* ImplementsStore for every instance: under the identity mapping of the  *)
(* list, CheckpointManager implements the abstract CheckpointStore, the   *)
(* two steps of create_checkpoint forming one atomic creation.           *)
(***************************************************************************)
THEOREM Refinement == Spec => ImplementsStore
<1>1. Init => Store!Init
  BY DEF Init, Store!Init
<1>. QED
  BY <1>1, RefineStep, IInvHolds, PTL DEF Spec, ImplementsStore, Store!Spec

=============================================================================
