--------------------------- MODULE MCHybridEngine ---------------------------
(* Small instance of HybridEngine: 2-bit block numbers (blocks 0..3), two *)
(* threads, two 2-byte signers between a 1-byte vanity and a 1-byte seal. *)
EXTENDS HybridEngine, TLC

CONSTANTS t1, t2

MCThreads == {t1, t2}
MCInitialSigners == << <<1, 2>>, <<3, 4>> >>
MCTransitionBlocks == 1..MaxNumber
MCGenesisTransition == {0}

Symmetry == Permutations(MCThreads)
=============================================================================
