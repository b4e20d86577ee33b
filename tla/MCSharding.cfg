SPECIFICATION Spec
INVARIANT RangesPartition
INVARIANT RangeShardIdIsReference
