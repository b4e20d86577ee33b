\* max_checkpoints = 2 as in example_03; four calls give three creations
\* and an eviction, with the background and user threads interleaved, a
\* concurrent writer, the rebinding of shard_, failing saves and loads, and
\* process restarts.  Weak fairness for the threads the code runs.
CONSTANTS
    MaxCheckpoints = 2
    MaxVectors = 2
    MaxCalls = 4
    IoMayFail = TRUE
SPECIFICATION FairSpec
INVARIANT RetainedFilesExist
INVARIANT RetainedOrdered
PROPERTY StopReturns
PROPERTY ImplementsStore
