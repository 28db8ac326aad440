CONSTANTS
    TransitionBlocks <- MCTransitionBlocks
    Heads <- MCHeads
    MaxBatch = 3
SPECIFICATION Spec
INVARIANT
    ValidBatchAccepted
CHECK_DEADLOCK FALSE
