-------------------------- MODULE CheckpointStore --------------------------
(***************************************************************************)
(* What CheckpointManager promises (spec 3 and 8), as an abstract          *)
(* specification: a list of checkpoints, each a record of an id and the   *)
(* number of vectors it recorded.  A checkpoint is created in one atomic   *)
(* step: it gets the id after the newest one (1 for an empty list) and the *)
(* oldest checkpoints beyond max_checkpoints are forgotten.  The list is   *)
(* held in memory only, so a process restart forgets all of it (spec 6).  *)
(***************************************************************************)
EXTENDS Naturals, Sequences

CONSTANTS
    MaxCheckpoints, \* max_checkpoints
    MaxVectors      \* the sizes a checkpoint may record

VARIABLE list

\* The id a new checkpoint gets.
Fresh(l) == IF l = <<>> THEN 1 ELSE l[Len(l)].id + 1

\* l without its oldest records beyond the newest MaxCheckpoints.
Newest(l) ==
    IF Len(l) <= MaxCheckpoints THEN l
    ELSE SubSeq(l, Len(l) - MaxCheckpoints + 1, Len(l))

Init == list = <<>>

\* A checkpoint of a shard holding n vectors is taken.
Create(n) == list' = Newest(Append(list, [id |-> Fresh(list), nv |-> n]))

\* The process restarts: the history is lost.
Forget == list' = <<>>

Next == (\E n \in 0..MaxVectors : Create(n)) \/ Forget

Spec == Init /\ [][Next]_list

=============================================================================
