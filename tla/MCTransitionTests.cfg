\* The four transition tests of logging_demo.go, each with its InsertChain
\* calls on blockchains whose hybrid engine switches at block 3.
CONSTANT Tests = {"BlockProcessing", "ChainSync", "Mining", "ForkChoice"}
SPECIFICATION Spec
INVARIANT FailuresOnlyAcrossTransition
PROPERTY TestEnds
\* A test stops at its last call or at its first failed call (t.Fatalf).
CHECK_DEADLOCK FALSE
