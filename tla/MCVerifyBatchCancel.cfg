CONSTANTS
    TransitionBlocks <- MCTransitionBlocks
    Heads <- MCHeads
    MaxBatch = 3
SPECIFICATION Spec
INVARIANT
    ResultsStopAtCancel
CHECK_DEADLOCK FALSE
