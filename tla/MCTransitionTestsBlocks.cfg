\* TestBlockProcessingAcrossTransition: one InsertChain call of blocks 1..5
\* with the transition at block 3.
CONSTANT Tests = {"BlockProcessing"}
SPECIFICATION Spec
INVARIANT InsertChainSucceeds
\* The test function stops at the end of its script or at t.Fatalf.
CHECK_DEADLOCK FALSE
