---------------------------- MODULE HybridEngine ----------------------------
(***************************************************************************)
(* The hybrid consensus engine of consensus/hybrid/hybrid.go (the file     *)
(* src/unnamed/part_001): a router that hands every consensus operation to *)
(* the PoS or the PoA engine according to the block number it is about,    *)
(* the one-shot preparation of the transition block, the unsynchronised    *)
(* diagnostic state written by selectEngine, and Close.                    *)
(*                                                                         *)
(* The engine is driven by concurrent threads of the host node.  A thread  *)
(* is either a miner that builds the next block (CalcDifficulty, Prepare,  *)
(* FinalizeAndAssemble, Seal, then the host inserts it), or a host thread  *)
(* that runs one operation on a block of the chain (Author, VerifyHeader,  *)
(* VerifyUncles, Finalize, SealHash), old blocks included, as a reorg      *)
(* does.  The wrapped engines are opaque: a header is accepted by an       *)
(* engine exactly when that engine computed its difficulty, prepared,      *)
(* assembled and sealed it.                                                *)
(***************************************************************************)
EXTENDS Naturals, Sequences, FiniteSets

CONSTANTS
    Width,            \* bit width of a block number (uint64 in the code)
    Threads,          \* the host's threads that call into the engine
    TransitionBlocks, \* the values New may be given as transitionBlock
    InitialSigners,   \* defaultInitialSigners: a sequence of addresses
    AddressLength,    \* common.AddressLength
    ExtraVanity,      \* extraVanity, the 32 vanity bytes
    ExtraSeal         \* extraSeal, the 65 seal bytes

MaxNumber == 2^Width - 1
Uint == 0..MaxNumber

ASSUME WidthAssumption == Width \in Nat \ {0}
ASSUME ThreadsAssumption == Threads # {} /\ IsFiniteSet(Threads)
ASSUME MaxNumberAssumption == MaxNumber \in Nat
ASSUME TransitionBlocksAssumption == TransitionBlocks \subseteq Uint
ASSUME LayoutAssumption ==
    /\ AddressLength \in Nat \ {0}
    /\ ExtraVanity \in Nat
    /\ ExtraSeal \in Nat
ASSUME SignersAssumption ==
    /\ InitialSigners \in Seq([1..AddressLength -> Nat \ {0}])
    /\ Len(InitialSigners) > 0

PoS == "PoS"
PoA == "PoA"
Engines == {PoS, PoA}
None == "None"

(* Operations that go through selectEngine, the ones reached directly,   *)
(* and the ones a host thread runs on a block that is already in chain.   *)
MinerOps == {"CalcDifficulty", "Prepare", "FinalizeAndAssemble", "Seal"}
HostOps == {"Author", "VerifyHeader", "VerifyUncles", "Finalize", "SealHash"}

(* The miner's pipeline: the next operation it will call.                *)
Stages == {"Idle", "CalcDifficulty", "Prepare", "FinalizeAndAssemble", "Seal", "Sealed"}

(* A header: its number, the engines that did each part of producing it  *)
(* and its consensus-reserved extra field as a sequence of bytes.         *)
Header == [num : Uint, diff : Engines \cup {None}, prep : Engines \cup {None},
           asm : Engines \cup {None}, seal : Engines \cup {None},
           extra : Seq(Nat)]

(* The genesis header: produced by no engine; its extra is the zeroed    *)
(* vanity and seal that the transition guide prescribes for genesis.      *)
GenesisHeader == [num |-> 0, diff |-> None, prep |-> None, asm |-> None,
                  seal |-> None,
                  extra |-> [j \in 1..(ExtraVanity + ExtraSeal) |-> 0]]

NoPending == [op |-> None, num |-> 0]

VARIABLES
    transitionBlock,  \* h.transitionBlock, fixed by New
    head,             \* number of the host chain's head block
    chain,            \* the host chain: block number -> header
    stage,            \* per thread: next step of its mining pipeline
    work,             \* per thread: the header the miner is building
    pending,          \* per thread: operation past the check of line 134
    transitionLogged, \* h.transitionLogged
    transitionLogs,   \* number of "Consensus engine transition" events
    lastLoggedEngine, \* h.lastLoggedEngine
    rejected,         \* blocks of chain an engine operation rejected
    closed,           \* the wrapped engines Close has closed
    closeErr          \* the engine whose error the last Close returned

vars == <<transitionBlock, head, chain, stage, work, pending,
          transitionLogged, transitionLogs, lastLoggedEngine, rejected,
          closed, closeErr>>

-----------------------------------------------------------------------------
(* shouldUsePoA and the engine selectEngine returns.                      *)
ShouldUsePoA(n) == n >= transitionBlock

EngineFor(n) == IF ShouldUsePoA(n) THEN PoA ELSE PoS

(* A wrapped engine accepts a header that it produced itself.             *)
Accepts(eng, hdr) ==
    hdr.diff = eng /\ hdr.prep = eng /\ hdr.asm = eng /\ hdr.seal = eng

(* Mutant: the signers copied from offset 0, over the vanity.             *)
CheckpointExtraNoVanity ==
    [j \in 1..(ExtraVanity + Len(InitialSigners) * AddressLength + ExtraSeal) |->
        IF j <= Len(InitialSigners) * AddressLength
        THEN InitialSigners[((j - 1) \div AddressLength) + 1][((j - 1) % AddressLength) + 1]
        ELSE 0]

(* The extraData of prepareTransitionBlock: zeroed vanity, every signer   *)
(* copied at extraVanity + i*AddressLength (i from 0), zeroed seal.       *)
CheckpointExtra ==
    [j \in 1..(ExtraVanity + Len(InitialSigners) * AddressLength + ExtraSeal) |->
        LET k == j - ExtraVanity - 1 IN
        IF j > ExtraVanity /\ k < Len(InitialSigners) * AddressLength
        THEN InitialSigners[(k \div AddressLength) + 1][(k % AddressLength) + 1]
        ELSE 0]

(* The signer list a checkpoint header carries, read the way the PoA      *)
(* engine reads it: the bytes between vanity and seal, cut into           *)
(* addresses. When they are not a whole number of them clique rejects the *)
(* header and no signer list is read: InvalidSigners, the empty list.      *)
InvalidSigners == <<>>
CheckpointSigners(extra) ==
    LET m == Len(extra) - ExtraVanity - ExtraSeal IN
    IF Len(extra) < ExtraVanity + ExtraSeal \/ m % AddressLength # 0
    THEN InvalidSigners
    ELSE [i \in 1..(m \div AddressLength) |->
            [b \in 1..AddressLength |-> extra[ExtraVanity + (i - 1) * AddressLength + b]]]

-----------------------------------------------------------------------------
Init ==
    /\ transitionBlock \in TransitionBlocks
    /\ head = 0
    /\ chain = [n \in {0} |-> GenesisHeader]
    /\ stage = [t \in Threads |-> "Idle"]
    /\ work = [t \in Threads |-> GenesisHeader]
    /\ pending = [t \in Threads |-> NoPending]
    /\ transitionLogged = FALSE
    /\ transitionLogs = 0
    /\ lastLoggedEngine = None
    /\ rejected = {}
    /\ closed = {}
    /\ closeErr = None

(* A host operation on block n of the chain, run by engine eng.           *)
RunOnChain(n, eng) ==
    rejected' = IF Accepts(eng, chain[n]) THEN rejected ELSE rejected \cup {n}

(* The effect of the wrapped engine's operation op, about block n, once   *)
(* selectEngine has returned eng; a failed miner step drops the work.     *)
Deliver(t, op, n, eng) ==
    /\ lastLoggedEngine' = eng
    /\ \/ /\ op \in HostOps
          /\ RunOnChain(n, eng)
          /\ UNCHANGED <<stage, work>>
       \/ /\ op = "CalcDifficulty"
          /\ work' = [work EXCEPT ![t].diff = eng]
          /\ stage' = [stage EXCEPT ![t] = "Prepare"]
          /\ UNCHANGED rejected
       \/ /\ op = "Prepare"
          /\ work' = [work EXCEPT ![t].prep = eng]
          /\ stage' = [stage EXCEPT ![t] = "FinalizeAndAssemble"]
          /\ UNCHANGED rejected
       \/ /\ op = "FinalizeAndAssemble"
          /\ work' = [work EXCEPT ![t].asm = eng]
          /\ stage' = [stage EXCEPT ![t] = "Seal"]
          /\ UNCHANGED rejected
       \/ /\ op = "Seal"
          /\ work' = [work EXCEPT ![t].seal = eng]
          /\ stage' = [stage EXCEPT ![t] = "Sealed"]
          /\ UNCHANGED rejected
       \/ /\ op \in MinerOps \ {"CalcDifficulty"}
          /\ stage' = [stage EXCEPT ![t] = "Idle"]
          /\ UNCHANGED <<work, rejected>>

(* Mutant: the transition event is due one block after the transition.  *)
SelectEngineAfter(t, op, n) ==
    \/ /\ n = transitionBlock + 1 /\ ~transitionLogged
       /\ pending' = [pending EXCEPT ![t] = [op |-> op, num |-> n]]
       /\ UNCHANGED <<stage, work, rejected, lastLoggedEngine>>
    \/ /\ ~(n = transitionBlock + 1 /\ ~transitionLogged)
       /\ Deliver(t, op, n, EngineFor(n))
       /\ UNCHANGED pending

(* selectEngine(n) called by thread t for op: line 134 reads              *)
(* transitionLogged without the lock; when the transition event is due,   *)
(* the write of line 135 is a separate step (SelectLog), otherwise the    *)
(* call proceeds to the wrapped engine.                                   *)
SelectEngine(t, op, n) ==
    \/ /\ n = transitionBlock /\ ~transitionLogged
       /\ pending' = [pending EXCEPT ![t] = [op |-> op, num |-> n]]
       /\ UNCHANGED <<stage, work, rejected, lastLoggedEngine>>
    \/ /\ ~(n = transitionBlock /\ ~transitionLogged)
       /\ Deliver(t, op, n, EngineFor(n))
       /\ UNCHANGED pending

(* Lines 135-148 and the rest of selectEngine for a call that saw         *)
(* transitionLogged = FALSE: set the flag, emit the event, delegate.      *)
SelectLog(t) ==
    /\ pending[t] # NoPending
    /\ transitionLogged' = TRUE
    /\ transitionLogs' = transitionLogs + 1
    /\ Deliver(t, pending[t].op, pending[t].num, EngineFor(pending[t].num))
    /\ pending' = [pending EXCEPT ![t] = NoPending]
    /\ UNCHANGED <<transitionBlock, head, chain, closed, closeErr>>

(* A thread that is neither mining nor inside selectEngine.               *)
Free(t) == stage[t] = "Idle" /\ pending[t] = NoPending

SelectStep(t, op, n) ==
    /\ SelectEngine(t, op, n)
    /\ UNCHANGED <<transitionBlock, head, chain, transitionLogged,
                   transitionLogs, closed, closeErr>>

-----------------------------------------------------------------------------
(* Author, VerifyHeader and VerifyUncles compare the block number with    *)
(* transitionBlock themselves and never enter selectEngine.               *)
DirectOp(n, eng) ==
    /\ RunOnChain(n, eng)
    /\ UNCHANGED <<transitionBlock, head, chain, stage, work, pending,
                   transitionLogged, transitionLogs, lastLoggedEngine,
                   closed, closeErr>>

Author(t, n) ==
    /\ Free(t) /\ n \in 1..head
    /\ DirectOp(n, IF n < transitionBlock THEN PoS ELSE PoA)

VerifyHeader(t, n) ==
    /\ Free(t) /\ n \in 1..head
    /\ DirectOp(n, IF n < transitionBlock THEN PoS ELSE PoA)

VerifyUncles(t, n) ==
    /\ Free(t) /\ n \in 1..head
    /\ DirectOp(n, IF n < transitionBlock THEN PoS ELSE PoA)

Finalize(t, n) == Free(t) /\ n \in 1..head /\ SelectStep(t, "Finalize", n)
SealHash(t, n) == Free(t) /\ n \in 1..head /\ SelectStep(t, "SealHash", n)

(* Mutant: CalcDifficulty selects by the parent's own number.            *)
CalcDifficultyByParent(t) ==
    /\ stage[t] = "CalcDifficulty" /\ pending[t] = NoPending
    /\ SelectStep(t, "CalcDifficulty", work[t].num - 1)

(* CalcDifficulty selects by parent.Number + 1, a uint64 sum, where the   *)
(* parent of the header being built is block work[t].num - 1.             *)
CalcDifficulty(t) ==
    /\ stage[t] = "CalcDifficulty" /\ pending[t] = NoPending
    /\ SelectStep(t, "CalcDifficulty", ((work[t].num - 1) + 1) % (MaxNumber + 1))

(* prepareTransitionBlock: write the checkpoint extraData into the        *)
(* caller's header, then let the PoA engine prepare the rest; on its      *)
(* failure the header keeps the new extra and the miner drops it.         *)
PrepareTransitionBlock(t) ==
    /\ work' = [work EXCEPT ![t].extra = CheckpointExtra, ![t].prep = PoA]
    /\ \/ stage' = [stage EXCEPT ![t] = "FinalizeAndAssemble"]
       \/ stage' = [stage EXCEPT ![t] = "Idle"]

(* Prepare: the transition block goes to prepareTransitionBlock without  *)
(* selectEngine; every other block through selectEngine.                  *)
Prepare(t) ==
    /\ stage[t] = "Prepare" /\ pending[t] = NoPending
    /\ \/ /\ work[t].num = transitionBlock
          /\ PrepareTransitionBlock(t)
          /\ UNCHANGED <<transitionBlock, head, chain, pending, transitionLogged,
                         transitionLogs, lastLoggedEngine, rejected,
                         closed, closeErr>>
       \/ /\ work[t].num # transitionBlock
          /\ SelectStep(t, "Prepare", work[t].num)

FinalizeAndAssemble(t) ==
    /\ stage[t] = "FinalizeAndAssemble" /\ pending[t] = NoPending
    /\ SelectStep(t, "FinalizeAndAssemble", work[t].num)

Seal(t) ==
    /\ stage[t] = "Seal" /\ pending[t] = NoPending
    /\ SelectStep(t, "Seal", work[t].num)

(* Mutant: Close returns as soon as the PoS engine fails to close.        *)
CloseReturnEarly(errPoS, errPoA) ==
    /\ closed' = IF errPoS THEN {PoS} ELSE Engines
    /\ closeErr' = IF errPoS THEN PoS ELSE IF errPoA THEN PoA ELSE None
    /\ UNCHANGED <<transitionBlock, head, chain, stage, work, pending,
                   transitionLogged, transitionLogs, lastLoggedEngine, rejected>>

(* Close: close the PoS engine, then the PoA engine whatever the first    *)
(* returned, and return the first error.                                  *)
Close(errPoS, errPoA) ==
    /\ closed' = Engines
    /\ closeErr' = IF errPoS THEN PoS ELSE IF errPoA THEN PoA ELSE None
    /\ UNCHANGED <<transitionBlock, head, chain, stage, work, pending,
                   transitionLogged, transitionLogs, lastLoggedEngine, rejected>>

-----------------------------------------------------------------------------
(* The host node around the engine (not code of this repository): its    *)
(* miner starts a header on top of the head, it inserts a sealed block    *)
(* that still extends the head and drops stale work, and it rewinds the   *)
(* head in a reorg.                                                       *)
StartWork(t) ==
    /\ Free(t)
    /\ head < MaxNumber
    /\ work' = [work EXCEPT ![t] = [num |-> head + 1, diff |-> None, prep |-> None,
                                    asm |-> None, seal |-> None, extra |-> <<>>]]
    /\ stage' = [stage EXCEPT ![t] = "CalcDifficulty"]
    /\ UNCHANGED <<transitionBlock, head, chain, pending, transitionLogged,
                   transitionLogs, lastLoggedEngine, rejected, closed, closeErr>>

InsertBlock(t) ==
    /\ stage[t] = "Sealed"
    /\ IF work[t].num = head + 1
       THEN /\ chain' = [n \in 0..(head + 1) |-> IF n = head + 1 THEN work[t] ELSE chain[n]]
            /\ head' = head + 1
       ELSE UNCHANGED <<chain, head>>
    /\ stage' = [stage EXCEPT ![t] = "Idle"]
    /\ UNCHANGED <<transitionBlock, work, pending, transitionLogged,
                   transitionLogs, lastLoggedEngine, rejected, closed, closeErr>>

SetHead(n) ==
    /\ n < head
    /\ head' = n
    /\ chain' = [m \in 0..n |-> chain[m]]
    /\ UNCHANGED <<transitionBlock, stage, work, pending, transitionLogged,
                   transitionLogs, lastLoggedEngine, rejected, closed, closeErr>>

Next ==
    \/ \E t \in Threads :
          \/ StartWork(t) \/ CalcDifficulty(t) \/ Prepare(t) \/ FinalizeAndAssemble(t)
          \/ Seal(t) \/ SelectLog(t) \/ InsertBlock(t)
          \/ \E n \in Uint :
                \/ Author(t, n) \/ VerifyHeader(t, n) \/ VerifyUncles(t, n)
                \/ Finalize(t, n) \/ SealHash(t, n)
    \/ \E errPoS, errPoA \in BOOLEAN : Close(errPoS, errPoA)
    \/ \E n \in Uint : SetHead(n)

Spec == Init /\ [][Next]_vars

-----------------------------------------------------------------------------
(* Every variable keeps the shape the code gives it; Close closes both    *)
(* wrapped engines or has not run.                                        *)
TypeOK ==
    /\ transitionBlock \in Uint
    /\ head \in Uint
    /\ chain \in [0..head -> Header]
    /\ stage \in [Threads -> Stages]
    /\ work \in [Threads -> Header]
    /\ pending \in [Threads -> {NoPending} \cup [op : MinerOps \cup HostOps, num : Uint]]
    /\ transitionLogged \in BOOLEAN
    /\ transitionLogs \in Nat
    /\ lastLoggedEngine \in Engines \cup {None}
    /\ rejected \subseteq Uint
    /\ closed \in {{}, Engines}
    /\ closeErr \in Engines \cup {None}

(* Whatever the threads interleave and however the head is rewound, no    *)
(* operation the node runs on a block it produced itself (verification of *)
(* an old PoS header after the chain passed the transition included) is   *)
(* handed to an engine other than the one that produced it: dispatch by   *)
(* the header's number in VerifyHeader, Author, CalcDifficulty (parent+1) *)
(* and the selectEngine calls all agree.                                  *)
OwnBlocksAccepted == rejected = {}

(* The block at the transition height carries exactly defaultInitialSigners *)
(* in the layout the PoA engine reads, and no other block of the chain    *)
(* carries them: prepareTransitionBlock seeds the signer set once.        *)
SignersSeededAtTransition ==
    /\ head >= transitionBlock =>
          CheckpointSigners(chain[transitionBlock].extra) = InitialSigners
    /\ \A n \in DOMAIN chain \ {transitionBlock} :
          CheckpointSigners(chain[n].extra) # InitialSigners

TransitionLoggedWhenReached ==
    head >= transitionBlock => transitionLogs >= 1

-----------------------------------------------------------------------------
(* The refinement mapping onto HybridChain: a header is abstracted to the *)
(* engine that did every part of producing it (None when no single engine *)
(* did) and to whether clique reads defaultInitialSigners from it.        *)
ProducedBy(hdr) ==
    IF Accepts(PoA, hdr) THEN PoA ELSE IF Accepts(PoS, hdr) THEN PoS ELSE None

AbstractBlock(hdr) ==
    [engine |-> ProducedBy(hdr),
     seeded |-> CheckpointSigners(hdr.extra) = InitialSigners]

HC == INSTANCE HybridChain
        WITH Height <- MaxNumber,
             blocks <- [n \in DOMAIN chain |-> AbstractBlock(chain[n])]

(* The engine, driven by any interleaving of miner and host threads, with *)
(* failing wrapped calls and reorgs, implements HybridChain: every block  *)
(* the host inserts is wholly the work of the engine selectEngine and the *)
(* direct dispatches choose for its number, prepareTransitionBlock's       *)
(* signers appear at the transition block and nowhere else, and every     *)
(* other step leaves the abstract chain as it is.                          *)
ImplementsHybridChain == HC!Spec
=============================================================================
