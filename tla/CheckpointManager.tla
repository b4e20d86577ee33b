------------------------- MODULE CheckpointManager -------------------------
(***************************************************************************)
(* CheckpointManager of advanced_distributed.cpp, with the ShardNode it    *)
(* points to, the files it writes, a writer thread adding vectors to the  *)
(* shard, the manager's background checkpoint thread and a user thread     *)
(* that calls create_checkpoint, restore_latest, start and stop.          *)
(*                                                                         *)
(* A shard's content is abstracted to its size; a checkpoint file to the  *)
(* size it holds.  The manager's mutex_ is held from the start of          *)
(* create_checkpoint to its end, but the shard's own mutex is taken twice *)
(* inside it, once by save and once by size, so a write or a rebinding of *)
(* shard_ can fall between the two: create_checkpoint is two steps.        *)
(***************************************************************************)
EXTENDS Naturals, Sequences

CONSTANTS
    MaxCheckpoints, \* max_checkpoints_
    MaxVectors,     \* bound on a shard's size, for TLC
    MaxCalls,       \* bound on create_checkpoint / restore_latest calls, for TLC
    IoMayFail       \* whether save / load may fail on I/O

ASSUME CheckpointAssumption ==
    /\ MaxCheckpoints \in Nat
    /\ MaxVectors \in Nat
    /\ MaxCalls \in Nat
    /\ IoMayFail \in BOOLEAN

\* The shard the manager was built with (1) and the fresh one that
\* example_03 rebinds shard_ to when it simulates a crash (2).
ShardIds == {1, 2}

Threads == {"bg", "user"}   \* checkpoint_thread_ and the caller

VARIABLES
    size,       \* size[s]: the number of vectors in shard s
    target,     \* shard_: the shard the manager saves and restores
    disk,       \* disk[id]: the size held by the file checkpoint_<id>.usearch
    list,       \* checkpoints_: a sequence of [id, nv] records
    lock,       \* mutex_: the thread holding it, or "free"
    running,    \* running_
    pc,         \* pc[t]: where thread t is
    curId,      \* curId[t]: the id create_checkpoint of t is writing
    calls,      \* calls made so far (model bound)
    ret         \* what the user's last call returned

vars == <<size, target, disk, list, lock, running, pc, curId, calls, ret>>

-----------------------------------------------------------------------------
(* The checkpoint list.                                                    *)

\* Mutant: the next id taken from the number of retained checkpoints.
NextIdByLength(l) == Len(l) + 1

\* `checkpoints_.empty() ? 1 : checkpoints_.back().id + 1`
NextId(l) == IF l = <<>> THEN 1 ELSE l[Len(l)].id + 1

\* How many front records cleanup_old's loop erases from l: all but the
\* last max_checkpoints_.
EvictCount(l) == IF Len(l) > MaxCheckpoints THEN Len(l) - MaxCheckpoints ELSE 0

\* Mutant: cleanup_old deletes the files of the newest records instead.
EvictedNewest(l) == {l[i].id : i \in (Len(l) - EvictCount(l) + 1)..Len(l)}

\* The files cleanup_old removes: those of the erased records.
Evicted(l) == {l[i].id : i \in 1..EvictCount(l)}

\* The list cleanup_old leaves.
Retained(l) == [i \in 1..(Len(l) - EvictCount(l)) |-> l[i + EvictCount(l)]]

\* The files with the file of id written (a save) or removed.
WriteFile(d, id, n) == [i \in DOMAIN d \cup {id} |-> IF i = id THEN n ELSE d[i]]

RemoveFiles(d, ids) == [i \in DOMAIN d \ ids |-> d[i]]

-----------------------------------------------------------------------------
Init ==
    /\ size = [s \in ShardIds |-> 0]
    /\ target = 1
    /\ disk = [i \in {} |-> 0]
    /\ list = <<>>
    /\ lock = "free"
    /\ running = FALSE
    /\ pc = [t \in Threads |-> IF t = "bg" THEN "none" ELSE "idle"]
    /\ curId = [t \in Threads |-> 0]
    /\ calls = 0
    /\ ret = TRUE

\* Another thread adds a vector to the original shard (ShardNode::add).
Write ==
    /\ size[1] < MaxVectors
    /\ size' = [size EXCEPT ![1] = @ + 1]
    /\ UNCHANGED <<target, disk, list, lock, running, pc, curId, calls, ret>>

\* example_03's `checkpoint_mgr.shard_ = &new_shard`, outside any lock.
Rebind ==
    /\ target = 1
    /\ target' = 2
    /\ UNCHANGED <<size, disk, list, lock, running, pc, curId, calls, ret>>

\* start: set running_ and spawn checkpoint_thread_ (it must not be joinable).
Start ==
    /\ pc["user"] = "idle"
    /\ pc["bg"] = "none"
    /\ running' = TRUE
    /\ pc' = [pc EXCEPT !["bg"] = "check"]
    /\ UNCHANGED <<size, target, disk, list, lock, curId, calls, ret>>

\* stop: clear running_, then join the thread.
Stop ==
    /\ pc["user"] = "idle"
    /\ running
    /\ running' = FALSE
    /\ pc' = [pc EXCEPT !["user"] = "join"]
    /\ UNCHANGED <<size, target, disk, list, lock, curId, calls, ret>>

Join ==
    /\ pc["user"] = "join"
    /\ pc["bg"] = "none"
    /\ pc' = [pc EXCEPT !["user"] = "idle"]
    /\ UNCHANGED <<size, target, disk, list, lock, running, curId, calls, ret>>

\* Mutant: the loop test reads a stale running_ and never sees the stop.
LoopCheckIgnoresStop ==
    /\ pc["bg"] = "check"
    /\ pc' = [pc EXCEPT !["bg"] = "sleep"]
    /\ UNCHANGED <<size, target, disk, list, lock, running, curId, calls, ret>>

\* checkpoint_loop: `while (running_)`, then the sleep, then `if (running_)`.
LoopCheck ==
    /\ pc["bg"] = "check"
    /\ pc' = [pc EXCEPT !["bg"] = IF running THEN "sleep" ELSE "none"]
    /\ UNCHANGED <<size, target, disk, list, lock, running, curId, calls, ret>>

Wake ==
    /\ pc["bg"] = "sleep"
    /\ running => calls < MaxCalls
    /\ pc' = [pc EXCEPT !["bg"] = IF running THEN "create" ELSE "check"]
    /\ calls' = IF running THEN calls + 1 ELSE calls
    /\ UNCHANGED <<size, target, disk, list, lock, running, curId, ret>>

\* The user calls create_checkpoint.
CallCreate ==
    /\ pc["user"] = "idle"
    /\ calls < MaxCalls
    /\ calls' = calls + 1
    /\ pc' = [pc EXCEPT !["user"] = "create"]
    /\ UNCHANGED <<size, target, disk, list, lock, running, curId, ret>>

\* Where create_checkpoint returns to (or its exception is caught).
After(t) == IF t = "bg" THEN "check" ELSE "idle"

\* Mutant: create_checkpoint without the lock_guard on mutex_.
CreateSaveNoLock(t) ==
    /\ pc[t] = "create"
    /\ \/ /\ disk' = WriteFile(disk, NextId(list), size[target])
          /\ curId' = [curId EXCEPT ![t] = NextId(list)]
          /\ pc' = [pc EXCEPT ![t] = "record"]
          /\ UNCHANGED <<ret, lock>>
       \/ /\ IoMayFail
          /\ pc' = [pc EXCEPT ![t] = After(t)]
          /\ ret' = IF t = "user" THEN FALSE ELSE ret
          /\ UNCHANGED <<disk, curId, lock>>
    /\ UNCHANGED <<size, target, list, running, calls>>

(***************************************************************************)
(* create_checkpoint, first part: take mutex_, allocate the id, and        *)
(* shard_->save(path) under the shard's lock.  A failed save throws: the  *)
(* lock is released and nothing is recorded.                               *)
(***************************************************************************)
CreateSave(t) ==
    /\ pc[t] = "create"
    /\ lock = "free"
    /\ \/ /\ disk' = WriteFile(disk, NextId(list), size[target])
          /\ curId' = [curId EXCEPT ![t] = NextId(list)]
          /\ lock' = t
          /\ pc' = [pc EXCEPT ![t] = "record"]
          /\ UNCHANGED ret
       \/ /\ IoMayFail
          /\ pc' = [pc EXCEPT ![t] = After(t)]
          /\ ret' = IF t = "user" THEN FALSE ELSE ret
          /\ UNCHANGED <<disk, curId, lock>>
    /\ UNCHANGED <<size, target, list, running, calls>>

(***************************************************************************)
(* create_checkpoint, second part: num_vectors = shard_->size() under the *)
(* shard's lock again, push_back, cleanup_old (erase from the front and   *)
(* remove the files while more than max_checkpoints_ remain), release.    *)
(***************************************************************************)
CreateRecord(t) ==
    /\ pc[t] = "record"
    /\ LET l == Append(list, [id |-> curId[t], nv |-> size[target]])
       IN  /\ list' = Retained(l)
           /\ disk' = RemoveFiles(disk, Evicted(l))
    /\ lock' = "free"
    /\ pc' = [pc EXCEPT ![t] = After(t)]
    /\ ret' = IF t = "user" THEN TRUE ELSE ret
    /\ UNCHANGED <<size, target, running, curId, calls>>

(***************************************************************************)
(* restore_latest, under mutex_: false when the list is empty, else        *)
(* shard_->load of the last checkpoint's file, returning its success.     *)
(***************************************************************************)
RestoreLatest ==
    /\ pc["user"] = "idle"
    /\ lock = "free"
    /\ calls < MaxCalls
    /\ calls' = calls + 1
    /\ \/ /\ list = <<>>
          /\ ret' = FALSE
          /\ UNCHANGED size
       \/ /\ list # <<>>
          /\ list[Len(list)].id \in DOMAIN disk
          /\ size' = [size EXCEPT ![target] = disk[list[Len(list)].id]]
          /\ ret' = TRUE
       \/ /\ list # <<>>
          /\ list[Len(list)].id \notin DOMAIN disk \/ IoMayFail
          /\ ret' = FALSE
          /\ UNCHANGED size
    /\ UNCHANGED <<target, disk, list, lock, running, pc, curId>>

(***************************************************************************)
(* The process restarts, at any point: a new CheckpointManager over a      *)
(* fresh shard starts with an empty checkpoints_ and no thread, and the    *)
(* checkpoint files stay on disk.  The list is not persisted (spec 6).    *)
(***************************************************************************)
Restart ==
    /\ size' = [s \in ShardIds |-> 0]
    /\ target' = 1
    /\ list' = <<>>
    /\ lock' = "free"
    /\ running' = FALSE
    /\ pc' = [t \in Threads |-> IF t = "bg" THEN "none" ELSE "idle"]
    /\ curId' = [t \in Threads |-> 0]
    /\ ret' = TRUE
    /\ UNCHANGED <<disk, calls>>

Next ==
    \/ Write \/ Rebind \/ Start \/ Stop \/ Join \/ LoopCheck \/ Wake
    \/ CallCreate \/ RestoreLatest \/ Restart
    \/ \E t \in Threads : CreateSave(t) \/ CreateRecord(t)

Spec == Init /\ [][Next]_vars

(***************************************************************************)
(* The operating system runs every runnable thread eventually, and a      *)
(* sleep_for ends: weak fairness for the background thread's steps, for   *)
(* each thread's create_checkpoint once it holds or waits for mutex_, and *)
(* for the join of stop().  The user's calls, the writer, the rebinding   *)
(* and restarts are not forced.                                            *)
(***************************************************************************)
Fairness ==
    /\ WF_vars(LoopCheck) /\ WF_vars(Wake) /\ WF_vars(Join)
    /\ \A t \in Threads : WF_vars(CreateSave(t)) /\ WF_vars(CreateRecord(t))

FairSpec == Spec /\ Fairness

-----------------------------------------------------------------------------
(* Properties                                                              *)

TypeOK ==
    /\ size \in [ShardIds -> 0..MaxVectors]
    /\ target \in ShardIds
    /\ DOMAIN disk \subseteq Nat /\ \A i \in DOMAIN disk : disk[i] \in 0..MaxVectors
    /\ list \in Seq([id : Nat, nv : 0..MaxVectors])
    /\ lock \in Threads \cup {"free"}
    /\ running \in BOOLEAN
    /\ pc["bg"] \in {"none", "check", "sleep", "create", "record"}
    /\ pc["user"] \in {"idle", "join", "create", "record"}
    /\ curId \in [Threads -> Nat]
    /\ calls \in 0..MaxCalls
    /\ ret \in BOOLEAN

(***************************************************************************)
(* Every checkpoint in the list can be restored: its file is on disk.      *)
(* cleanup_old must delete exactly the files of the records it erases,     *)
(* across interleaved creations by the background and the user thread.    *)
(***************************************************************************)
RetainedFilesExist ==
    \A i \in 1..Len(list) : list[i].id \in DOMAIN disk

(***************************************************************************)
(* Spec 3: the retained checkpoints number at most max_checkpoints_ and    *)
(* their ids strictly increase, so restore_latest loads the newest one.    *)
(***************************************************************************)
RetainedOrdered ==
    /\ Len(list) <= MaxCheckpoints
    /\ \A i \in 1..Len(list) - 1 : list[i].id < list[i + 1].id

(***************************************************************************)
(* Spec 8 (restore round-trip) and 5 (the snapshot observes a stable shard *)
(* state): a successful restore_latest leaves the shard with the number   *)
(* of vectors its checkpoint recorded.  create_checkpoint saves and reads  *)
(* the size under two separate acquisitions of the shard's lock.          *)
(***************************************************************************)
RestoreRoundTrip ==
    [][RestoreLatest /\ ret' => size'[target] = list[Len(list)].nv]_vars

(***************************************************************************)
(* Spec 9 (background-loop lifecycle): stop() returns.  Once the user is  *)
(* in stop()'s join, checkpoint_loop sees running_ false at its next test *)
(* (after at most one sleep and one create_checkpoint) and exits, and the *)
(* join returns.                                                           *)
(***************************************************************************)
StopReturns ==
    pc["user"] = "join" ~> pc["user"] = "idle"

Store == INSTANCE CheckpointStore

(***************************************************************************)
(* Spec 3, 6 and 8: checkpoints_ behaves as the abstract CheckpointStore. *)
(* The two steps of create_checkpoint, save and record, act as one        *)
(* creation with the next id, because mutex_ is held from the id's         *)
(* allocation to the push_back and cleanup_old; restore_latest leaves the *)
(* list alone, and a restart forgets it.                                   *)
(***************************************************************************)
ImplementsStore == Store!Spec

=============================================================================
