-------------------------- MODULE HybridChainProofs --------------------------
(***************************************************************************)
(* Proof that the hybrid engine implements HybridChain under the mapping  *)
(* of HybridEngine: the inserted block is the era block of its height,    *)
(* a reorg is a rewind, and every other step leaves the abstract chain    *)
(* unchanged. The argument rests on the invariants IInv (the tags of work *)
(* in production) and SeedInv (the extra fields of work and chain).       *)
(***************************************************************************)
EXTENDS HybridSignersProofs

(* The steps that touch neither the transition height nor the chain.      *)
ChainFrame == UNCHANGED <<transitionBlock, head, chain>>

LEMMA RefStutter == ChainFrame => UNCHANGED HC!chainVars
  BY DEF ChainFrame, HC!chainVars

(* The genesis header is abstracted to the genesis block.                 *)
LEMMA RefInit == Init => HC!Init
<1> SUFFICES ASSUME Init PROVE HC!Init
  OBVIOUS
<1>1. ProducedBy(GenesisHeader) = None
  BY DEF ProducedBy, Accepts, GenesisHeader, PoA, PoS, None
<1>2. (CheckpointSigners(GenesisHeader.extra) = InitialSigners) = FALSE
  BY SignersOfOthers DEF GenesisExtra
<1>3. AbstractBlock(GenesisHeader) = HC!GenesisBlock
  BY <1>1, <1>2 DEF AbstractBlock, HC!GenesisBlock, None
<1>. QED  BY <1>3 DEF Init, HC!Init

(* Sealed work is wholly the work of the engine of its number, and        *)
(* carries the initial signers exactly when that number is the            *)
(* transition block: it is the era block of its height.                   *)
LEMMA SealedIsEraBlock ==
    ASSUME IInv, SeedInv, NEW t \in Threads, stage[t] = "Sealed"
    PROVE  AbstractBlock(work[t]) = HC!EraBlock(work[t].num)
<1> DEFINE w == work[t]
<1>1. Accepts(EngineFor(w.num), w)
  BY DEF IInv, WorkTagged, Busy, Accepts
<1>2. ProducedBy(w) = IF w.num >= transitionBlock THEN "PoA" ELSE "PoS"
  BY <1>1 DEF ProducedBy, Accepts, EngineFor, ShouldUsePoA, PoA, PoS
<1>3. CASE w.num = transitionBlock
  <2>1. w.extra = CheckpointExtra
    BY <1>3 DEF SeedInv, ThreadSeeded, Prepared
  <2>. QED  BY <1>2, <1>3, <2>1, SignersOfCheckpoint DEF AbstractBlock, HC!EraBlock
<1>4. CASE w.num # transitionBlock
  <2>1. w.extra \in {<<>>, GenesisExtra}
    BY <1>4 DEF SeedInv, ThreadSeeded, KnownExtra
  <2>2. (CheckpointSigners(w.extra) = InitialSigners) = FALSE
    BY <2>1, SignersOfOthers
  <2>. QED  BY <1>2, <1>4, <2>2 DEF AbstractBlock, HC!EraBlock
<1>. QED  BY <1>3, <1>4

(* Inserting sealed work on top of the head is an Extend; stale work is   *)
(* dropped without touching the chain.                                     *)
LEMMA RefInsertBlock ==
    ASSUME IInv, SeedInv, NEW t \in Threads, InsertBlock(t)
    PROVE  [HC!Next]_HC!chainVars
<1>1. chain \in [0..head -> Header] /\ head \in Nat /\ stage[t] = "Sealed"
  BY DEF IInv, TypeOK, Uint, InsertBlock
<1>2. CASE work[t].num = head + 1
  <2>1. chain' = [n \in 0..(head + 1) |-> IF n = head + 1 THEN work[t] ELSE chain[n]]
        /\ head' = head + 1 /\ UNCHANGED transitionBlock
    BY <1>2 DEF InsertBlock
  <2>2. head < MaxNumber
    BY <1>1, <1>2, MaxNumberNat DEF IInv, WorkTagged, Busy
  <2>3. AbstractBlock(work[t]) = HC!EraBlock(head + 1)
    BY <1>1, <1>2, SealedIsEraBlock
  <2>4. [n \in DOMAIN chain' |-> AbstractBlock(chain'[n])]
          = [n \in 0..(head + 1) |->
               IF n = head + 1 THEN HC!EraBlock(n)
               ELSE [m \in DOMAIN chain |-> AbstractBlock(chain[m])][n]]
    BY <1>1, <2>1, <2>3
  <2>5. HC!Extend
    BY <2>1, <2>2, <2>4 DEF HC!Extend
  <2>. QED  BY <2>5 DEF HC!Next
<1>3. CASE work[t].num # head + 1
  BY <1>3, RefStutter DEF InsertBlock, ChainFrame
<1>. QED  BY <1>2, <1>3

(* A reorg of the host is a rewind of the abstract chain.                 *)
LEMMA RefSetHead ==
    ASSUME IInv, NEW n \in Uint, SetHead(n) PROVE [HC!Next]_HC!chainVars
<1>1. chain \in [0..head -> Header] /\ head \in Nat /\ n \in 0..MaxNumber
  BY DEF IInv, TypeOK, Uint
<1>2. [m \in DOMAIN chain' |-> AbstractBlock(chain'[m])]
        = [m \in 0..n |-> [k \in DOMAIN chain |-> AbstractBlock(chain[k])][m]]
  BY <1>1 DEF SetHead
<1>3. HC!Rewind(n)
  BY <1>2 DEF SetHead, HC!Rewind
<1>. QED  BY <1>1, <1>3 DEF HC!Next

(* Every step of the engine is a step of HybridChain or leaves it be.     *)
LEMMA RefStep == IInv /\ SeedInv /\ [Next]_vars => [HC!Next]_HC!chainVars
<1> SUFFICES ASSUME IInv, SeedInv, [Next]_vars PROVE [HC!Next]_HC!chainVars
  OBVIOUS
<1>1. ASSUME NEW t \in Threads,
             \/ StartWork(t) \/ CalcDifficulty(t) \/ Prepare(t)
             \/ FinalizeAndAssemble(t) \/ Seal(t) \/ SelectLog(t)
      PROVE  ChainFrame
  <2>1. CASE StartWork(t)
    BY <2>1 DEF StartWork, ChainFrame
  <2>2. CASE CalcDifficulty(t)
    BY <2>2 DEF CalcDifficulty, SelectStep, ChainFrame
  <2>3. CASE Prepare(t)
    BY <2>3 DEF Prepare, SelectStep, ChainFrame
  <2>4. CASE FinalizeAndAssemble(t)
    BY <2>4 DEF FinalizeAndAssemble, SelectStep, ChainFrame
  <2>5. CASE Seal(t)
    BY <2>5 DEF Seal, SelectStep, ChainFrame
  <2>6. CASE SelectLog(t)
    BY <2>6 DEF SelectLog, ChainFrame
  <2>. QED  BY <1>1, <2>1, <2>2, <2>3, <2>4, <2>5, <2>6
<1>2. ASSUME NEW t \in Threads, InsertBlock(t) PROVE [HC!Next]_HC!chainVars
  BY <1>2, RefInsertBlock
<1>3. ASSUME NEW t \in Threads, NEW n \in Uint,
             \/ Author(t, n) \/ VerifyHeader(t, n) \/ VerifyUncles(t, n)
             \/ Finalize(t, n) \/ SealHash(t, n)
      PROVE  ChainFrame
  BY <1>3 DEF Author, VerifyHeader, VerifyUncles, DirectOp, Finalize, SealHash,
              SelectStep, ChainFrame
<1>4. ASSUME NEW errPoS \in BOOLEAN, NEW errPoA \in BOOLEAN, Close(errPoS, errPoA)
      PROVE  ChainFrame
  BY <1>4 DEF Close, ChainFrame
<1>5. ASSUME NEW n \in Uint, SetHead(n) PROVE [HC!Next]_HC!chainVars
  BY <1>5, RefSetHead
<1>6. CASE UNCHANGED vars
  BY <1>6, RefStutter DEF vars, ChainFrame
<1>. QED  BY <1>1, <1>2, <1>3, <1>4, <1>5, <1>6, RefStutter DEF Next

(* Whatever the miner and host threads interleave, whichever wrapped      *)
(* calls fail and however the head is rewound, the chain the hybrid       *)
(* engine builds is a HybridChain: each block inserted on top of the head *)
(* was wholly produced by the engine its number selects, and carries      *)
(* prepareTransitionBlock's signers exactly when it is the transition     *)
(* block. Transition block 0 is excluded as in SignersSeeded.             *)
THEOREM ImplementsChain ==
    ASSUME 0 \notin TransitionBlocks
    PROVE  Spec => ImplementsHybridChain
<1>1. Init => IInv /\ SeedInv
  BY IInvInit, SeedInit
<1>2. IInv /\ SeedInv /\ [Next]_vars => IInv' /\ SeedInv'
  BY IInvStep, SeedStep
<1>3. Init => HC!Init
  BY RefInit
<1>4. IInv /\ SeedInv /\ [Next]_vars => [HC!Next]_HC!chainVars
  BY RefStep
<1>. QED  BY <1>1, <1>2, <1>3, <1>4, PTL DEF Spec, ImplementsHybridChain, HC!Spec
=============================================================================
