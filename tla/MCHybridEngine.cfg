CONSTANTS
    t1 = t1
    t2 = t2
    Width = 2
    Threads <- MCThreads
    TransitionBlocks <- MCTransitionBlocks
    InitialSigners <- MCInitialSigners
    AddressLength = 2
    ExtraVanity = 1
    ExtraSeal = 1
SYMMETRY Symmetry
SPECIFICATION Spec
INVARIANTS
    TypeOK
    OwnBlocksAccepted
    SignersSeededAtTransition
    TransitionLoggedWhenReached
