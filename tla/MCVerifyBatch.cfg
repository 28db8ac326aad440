CONSTANTS
    TransitionBlocks <- MCTransitionBlocks
    Heads <- MCHeads
    MaxBatch = 3
SPECIFICATION Spec
INVARIANTS
    SoundAcceptance
    AbortStopsVerification
PROPERTIES
    WritesOnlyAccepted
\* One call of VerifyHeaders: once the caller and the goroutine have
\* returned, nothing is left to run.
CHECK_DEADLOCK FALSE
