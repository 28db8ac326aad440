------------------------- MODULE HybridEngineProofs -------------------------
(***************************************************************************)
(* Proofs about HybridEngine for every width, every set of threads, every  *)
(* signer list and every extra-data layout the assumptions allow.          *)
(***************************************************************************)
EXTENDS HybridEngine, TLAPS

(* The largest block number is a natural number; 2^Width is beyond the   *)
(* arithmetic the SMT backend interprets, so the fact is an assumption    *)
(* that TLC checks on every run.                                          *)
LEMMA MaxNumberNat == MaxNumber \in Nat
BY MaxNumberAssumption

(* What the proofs use of defaultInitialSigners.                         *)
LEMMA SignerFacts ==
    /\ Len(InitialSigners) \in Nat \ {0}
    /\ \A i \in 1..Len(InitialSigners) :
          InitialSigners[i] \in [1..AddressLength -> Nat \ {0}]
BY SignersAssumption

(* The product of two natural numbers is one.                             *)
LEMMA NatProduct == \A a, b \in Nat : a * b \in Nat
OBVIOUS

(* The extraData prepareTransitionBlock builds is a sequence of bytes.    *)
LEMMA CheckpointExtraType == CheckpointExtra \in Seq(Nat)
<1> DEFINE L == ExtraVanity + Len(InitialSigners) * AddressLength + ExtraSeal
           N == Len(InitialSigners)
<1>1. N \in Nat \ {0} /\ N * AddressLength \in Nat
  BY SignerFacts, NatProduct, LayoutAssumption
<1>2. L \in Nat
  BY <1>1, LayoutAssumption
<1>3. ASSUME NEW j \in 1..L,
             j > ExtraVanity,
             j - ExtraVanity - 1 < N * AddressLength
      PROVE  InitialSigners[((j - ExtraVanity - 1) \div AddressLength) + 1]
                           [((j - ExtraVanity - 1) % AddressLength) + 1] \in Nat
  <2> DEFINE k == j - ExtraVanity - 1
  <2>1. k \in Nat /\ k < N * AddressLength
    BY <1>1, <1>3, LayoutAssumption
  <2>2. (k \div AddressLength) + 1 \in 1..N
    BY <1>1, <2>1, LayoutAssumption
  <2>3. (k % AddressLength) + 1 \in 1..AddressLength
    BY <2>1, LayoutAssumption
  <2>4. InitialSigners[(k \div AddressLength) + 1] \in [1..AddressLength -> Nat \ {0}]
    BY <2>2, SignerFacts
  <2>5. QED
    BY <2>3, <2>4
<1>4. CheckpointExtra = [j \in 1..L |->
          IF j > ExtraVanity /\ j - ExtraVanity - 1 < N * AddressLength
          THEN InitialSigners[((j - ExtraVanity - 1) \div AddressLength) + 1]
                             [((j - ExtraVanity - 1) % AddressLength) + 1]
          ELSE 0]
  BY DEF CheckpointExtra
<1>5. QED
  BY <1>2, <1>3, <1>4

(* The genesis header is a header.                                        *)
LEMMA GenesisType == GenesisHeader \in Header
BY LayoutAssumption, MaxNumberNat DEF GenesisHeader, Header, Uint, None, Engines

(* Deliver, the delegation every selectEngine call ends in, keeps the     *)
(* types of what it writes.                                               *)
LEMMA DeliverType ==
    ASSUME TypeOK, NEW t \in Threads, NEW op \in MinerOps \cup HostOps,
           NEW n \in Uint, NEW eng \in Engines,
           Deliver(t, op, n, eng)
    PROVE  /\ work' \in [Threads -> Header]
           /\ stage' \in [Threads -> Stages]
           /\ rejected' \subseteq Uint
           /\ lastLoggedEngine' \in Engines \cup {None}
<1>0. lastLoggedEngine' \in Engines \cup {None}
  BY DEF Deliver
<1>1. eng \in Engines \cup {None} /\ work[t] \in Header
  BY DEF TypeOK
<1>2. CASE op \in HostOps /\ RunOnChain(n, eng) /\ UNCHANGED <<stage, work>>
  BY <1>0, <1>2 DEF TypeOK, RunOnChain
<1>3. CASE op = "CalcDifficulty" /\ work' = [work EXCEPT ![t].diff = eng]
           /\ stage' = [stage EXCEPT ![t] = "Prepare"] /\ UNCHANGED rejected
  BY <1>0, <1>1, <1>3 DEF TypeOK, Header, Stages
<1>4. CASE op = "Prepare" /\ work' = [work EXCEPT ![t].prep = eng]
           /\ stage' = [stage EXCEPT ![t] = "FinalizeAndAssemble"] /\ UNCHANGED rejected
  BY <1>0, <1>1, <1>4 DEF TypeOK, Header, Stages
<1>5. CASE op = "FinalizeAndAssemble" /\ work' = [work EXCEPT ![t].asm = eng]
           /\ stage' = [stage EXCEPT ![t] = "Seal"] /\ UNCHANGED rejected
  BY <1>0, <1>1, <1>5 DEF TypeOK, Header, Stages
<1>6. CASE op = "Seal" /\ work' = [work EXCEPT ![t].seal = eng]
           /\ stage' = [stage EXCEPT ![t] = "Sealed"] /\ UNCHANGED rejected
  BY <1>0, <1>1, <1>6 DEF TypeOK, Header, Stages
<1>7. CASE stage' = [stage EXCEPT ![t] = "Idle"] /\ UNCHANGED <<work, rejected>>
  BY <1>0, <1>7 DEF TypeOK, Stages
<1>8. QED
  BY <1>2, <1>3, <1>4, <1>5, <1>6, <1>7 DEF Deliver

(* A step through selectEngine, whichever of its two branches it takes,   *)
(* keeps every variable well typed.                                       *)
LEMMA SelectStepType ==
    ASSUME TypeOK, NEW t \in Threads, NEW op \in MinerOps \cup HostOps,
           NEW n \in Uint, SelectStep(t, op, n)
    PROVE  TypeOK'
<1>1. CASE n = transitionBlock /\ ~transitionLogged
  BY <1>1 DEF SelectStep, SelectEngine, TypeOK
<1>2. CASE ~(n = transitionBlock /\ ~transitionLogged)
  <2>1. EngineFor(n) \in Engines
    BY DEF EngineFor, Engines
  <2>2. Deliver(t, op, n, EngineFor(n)) /\ UNCHANGED pending
    BY <1>2 DEF SelectStep, SelectEngine
  <2>3. QED
    BY <2>1, <2>2, DeliverType DEF SelectStep, TypeOK
<1>3. QED
  BY <1>1, <1>2

-----------------------------------------------------------------------------
(* The initial state of New is well typed.                               *)
LEMMA TypeInit == Init => TypeOK
  <2> SUFFICES ASSUME Init PROVE TypeOK
    OBVIOUS
  <2>1. transitionBlock \in Uint /\ head \in Uint
    BY TransitionBlocksAssumption, MaxNumberNat DEF Init, Uint
  <2>2. chain \in [0..head -> Header]
    BY GenesisType DEF Init
  <2>3. stage \in [Threads -> Stages] /\ work \in [Threads -> Header]
    BY GenesisType DEF Init, Stages
  <2>4. pending \in [Threads -> {NoPending} \cup [op : MinerOps \cup HostOps, num : Uint]]
    BY DEF Init
  <2>5. /\ transitionLogged \in BOOLEAN /\ transitionLogs \in Nat
        /\ lastLoggedEngine \in Engines \cup {None} /\ rejected \subseteq Uint
        /\ closed \in {{}, Engines} /\ closeErr \in Engines \cup {None}
    BY DEF Init
  <2>6. QED
    BY <2>1, <2>2, <2>3, <2>4, <2>5 DEF TypeOK
(* Every operation, whatever thread runs it, keeps the types.            *)
LEMMA TypeStep == TypeOK /\ [Next]_vars => TypeOK'
  <2> SUFFICES ASSUME TypeOK, [Next]_vars PROVE TypeOK'
    OBVIOUS
  <2>0. MaxNumber \in Nat
    BY MaxNumberNat
  <2>1. ASSUME NEW t \in Threads, StartWork(t) PROVE TypeOK'
    <3>1. head + 1 \in Uint
      BY <2>0, <2>1 DEF StartWork, TypeOK, Uint
    <3>2. [num |-> head + 1, diff |-> None, prep |-> None, asm |-> None,
           seal |-> None, extra |-> <<>>] \in Header
      BY <3>1 DEF Header, None
    <3>3. work' \in [Threads -> Header] /\ stage' \in [Threads -> Stages]
      BY <2>1, <3>2 DEF StartWork, TypeOK, Stages
    <3>. QED
      BY <2>1, <3>3 DEF StartWork, TypeOK
  <2>2. ASSUME NEW t \in Threads, CalcDifficulty(t) PROVE TypeOK'
    <3>1. ((work[t].num - 1) + 1) % (MaxNumber + 1) \in Uint
      BY <2>0 DEF TypeOK, Header, Uint
    <3>2. QED
      BY <2>2, <3>1, SelectStepType DEF CalcDifficulty, MinerOps
  <2>3. ASSUME NEW t \in Threads, Prepare(t) PROVE TypeOK'
    <3>1. CASE work[t].num = transitionBlock /\ PrepareTransitionBlock(t)
      <4>1. work[t] \in Header
        BY DEF TypeOK
      <4>2. [work[t] EXCEPT !.extra = CheckpointExtra, !.prep = PoA] \in Header
        BY <4>1, CheckpointExtraType DEF Header, Engines, PoA
      <4>3. work' \in [Threads -> Header]
        BY <3>1, <4>2 DEF PrepareTransitionBlock, TypeOK
      <4>4. stage' \in [Threads -> Stages]
        BY <3>1 DEF PrepareTransitionBlock, TypeOK, Stages
      <4>5. UNCHANGED <<transitionBlock, head, chain, pending, transitionLogged,
                        transitionLogs, lastLoggedEngine, rejected, closed, closeErr>>
        BY <2>3, <3>1 DEF Prepare
      <4>6. QED
        BY <4>3, <4>4, <4>5 DEF TypeOK
    <3>2. CASE work[t].num # transitionBlock /\ SelectStep(t, "Prepare", work[t].num)
      BY <3>2, SelectStepType DEF TypeOK, Header, MinerOps
    <3>3. QED
      BY <2>3, <3>1, <3>2 DEF Prepare
  <2>4. ASSUME NEW t \in Threads, FinalizeAndAssemble(t) PROVE TypeOK'
    BY <2>4, SelectStepType DEF FinalizeAndAssemble, TypeOK, Header, MinerOps
  <2>5. ASSUME NEW t \in Threads, Seal(t) PROVE TypeOK'
    BY <2>5, SelectStepType DEF Seal, TypeOK, Header, MinerOps
  <2>6. ASSUME NEW t \in Threads, SelectLog(t) PROVE TypeOK'
    <3>1. pending[t] \in [op : MinerOps \cup HostOps, num : Uint]
      BY <2>6 DEF SelectLog, TypeOK
    <3>2. EngineFor(pending[t].num) \in Engines
      BY DEF EngineFor, Engines
    <3>3. /\ work' \in [Threads -> Header]
          /\ stage' \in [Threads -> Stages]
          /\ rejected' \subseteq Uint
          /\ lastLoggedEngine' \in Engines \cup {None}
      BY <2>6, <3>1, <3>2, DeliverType DEF SelectLog
    <3>4. pending' \in [Threads -> {NoPending} \cup [op : MinerOps \cup HostOps, num : Uint]]
      BY <2>6 DEF SelectLog, TypeOK
    <3>5. transitionLogged' \in BOOLEAN /\ transitionLogs' \in Nat
      BY <2>6 DEF SelectLog, TypeOK
    <3>6. UNCHANGED <<transitionBlock, head, chain, closed, closeErr>>
      BY <2>6 DEF SelectLog
    <3>7. QED
      BY <3>3, <3>4, <3>5, <3>6 DEF TypeOK
  <2>7. ASSUME NEW t \in Threads, InsertBlock(t) PROVE TypeOK'
    <3>1. work[t] \in Header /\ head \in Uint
      BY DEF TypeOK
    <3>2. stage' \in [Threads -> Stages]
      BY <2>7 DEF InsertBlock, TypeOK, Stages
    <3>3. CASE work[t].num = head + 1
      <4>1. head + 1 \in Uint
        BY <3>1, <3>3 DEF Header
      <4>2. head' = head + 1
            /\ chain' = [n \in 0..(head + 1) |-> IF n = head + 1 THEN work[t] ELSE chain[n]]
        BY <2>7, <3>3 DEF InsertBlock
      <4>3. head \in Nat /\ chain \in [0..head -> Header]
        BY <3>1, MaxNumberNat DEF TypeOK, Uint
      <4>4. [n \in 0..(head + 1) |-> IF n = head + 1 THEN work[t] ELSE chain[n]]
              \in [0..(head + 1) -> Header]
        BY <3>1, <4>3
      <4>5. head' \in Uint /\ chain' \in [0..head' -> Header]
        BY <4>1, <4>2, <4>4
      <4>6. QED
        BY <2>7, <3>2, <4>5 DEF InsertBlock, TypeOK
    <3>4. CASE work[t].num # head + 1
      BY <2>7, <3>2, <3>4 DEF InsertBlock, TypeOK
    <3>5. QED
      BY <3>3, <3>4
  <2>8. ASSUME NEW t \in Threads, NEW n \in Uint,
               Author(t, n) \/ VerifyHeader(t, n) \/ VerifyUncles(t, n)
        PROVE  TypeOK'
    BY <2>8 DEF Author, VerifyHeader, VerifyUncles, DirectOp, RunOnChain, TypeOK
  <2>9. ASSUME NEW t \in Threads, NEW n \in Uint,
               Finalize(t, n) \/ SealHash(t, n)
        PROVE  TypeOK'
    BY <2>9, SelectStepType DEF Finalize, SealHash, HostOps
  <2>10. ASSUME NEW errPoS \in BOOLEAN, NEW errPoA \in BOOLEAN,
                Close(errPoS, errPoA)
         PROVE  TypeOK'
    BY <2>10 DEF Close, TypeOK, Engines, None
  <2>11. ASSUME NEW n \in Uint, SetHead(n) PROVE TypeOK'
    BY <2>0, <2>11 DEF SetHead, TypeOK, Uint
  <2>12. CASE UNCHANGED vars
    BY <2>12 DEF vars, TypeOK
  <2>13. QED
    BY <2>1, <2>2, <2>3, <2>4, <2>5, <2>6, <2>7, <2>8, <2>9, <2>10, <2>11,
       <2>12 DEF Next
(* Every reachable state is well typed.                                   *)
THEOREM TypeCorrect == Spec => []TypeOK
BY TypeInit, TypeStep, PTL DEF Spec
-----------------------------------------------------------------------------
(* The inductive invariant behind OwnBlocksAccepted.                      *)

(* A thread's block in production carries, for every step it has passed, *)
(* the tag of the engine its number selects.                              *)
Busy == {"CalcDifficulty", "Prepare", "FinalizeAndAssemble", "Seal", "Sealed"}
WorkTagged(t) ==
    LET w == work[t]
        e == EngineFor(w.num)
    IN  /\ stage[t] \in Busy => w.num \in 1..MaxNumber
        /\ stage[t] \in Busy \ {"CalcDifficulty"} => w.diff = e
        /\ stage[t] \in {"FinalizeAndAssemble", "Seal", "Sealed"} => w.prep = e
        /\ stage[t] \in {"Seal", "Sealed"} => w.asm = e
        /\ stage[t] = "Sealed" => w.seal = e

(* A selectEngine call suspended before setting transitionLogged belongs *)
(* to the miner step its thread is at, for the transition block.         *)
PendingOfMiner(t) ==
    pending[t] # NoPending =>
        /\ pending[t].op = stage[t]
        /\ pending[t].num = work[t].num
        /\ pending[t].num = transitionBlock

(* No block at or past the transition gets past CalcDifficulty, or into  *)
(* the chain, before the transition is logged.                            *)
LoggedBeforeTransition ==
    /\ transitionBlock \in 1..head => transitionLogged
    /\ \A t \in Threads :
          stage[t] \in Busy \ {"CalcDifficulty"} /\ work[t].num = transitionBlock
              => transitionLogged

ChainTagged == \A n \in 1..head : Accepts(EngineFor(n), chain[n])

IInv ==
    /\ TypeOK
    /\ rejected = {}
    /\ ChainTagged
    /\ LoggedBeforeTransition
    /\ \A t \in Threads : WorkTagged(t) /\ PendingOfMiner(t)

(* A miner step of thread t that selectEngine delegated (directly or      *)
(* after logging the transition) keeps the invariant: the tag it writes   *)
(* is the engine of the block's own number, and other threads' work, the *)
(* chain and the flag it relies on are left as they were.                 *)
LEMMA DeliverMiner ==
    ASSUME IInv, NEW t \in Threads,
           stage[t] \in MinerOps,
           Deliver(t, stage[t], work[t].num, EngineFor(work[t].num)),
           work[t].num = transitionBlock => transitionLogged',
           transitionLogged => transitionLogged',
           pending' = [pending EXCEPT ![t] = NoPending],
           UNCHANGED <<transitionBlock, head, chain>>,
           TypeOK'
    PROVE  IInv'
<1> DEFINE w == work[t]
           e == EngineFor(work[t].num)
<1>1. /\ stage \in [Threads -> Stages] /\ work \in [Threads -> Header]
      /\ stage' \in [Threads -> Stages] /\ work' \in [Threads -> Header]
      /\ rejected = {}
  BY DEF IInv, TypeOK
<1>2. stage[t] \notin HostOps
  BY DEF MinerOps, HostOps
(* What the step does to t, one case per outcome of the wrapped engine.   *)
<1>3. /\ rejected' = rejected
      /\ work'[t].num = w.num
      /\ \A u \in Threads \ {t} : work'[u] = work[u] /\ stage'[u] = stage[u]
      /\ WorkTagged(t) => WorkTagged(t)'
  <2>1. CASE stage[t] = "CalcDifficulty"
             /\ work' = [work EXCEPT ![t].diff = e]
             /\ stage' = [stage EXCEPT ![t] = "Prepare"] /\ UNCHANGED rejected
    BY <1>1, <2>1 DEF WorkTagged, Busy, EngineFor, ShouldUsePoA
  <2>2. CASE stage[t] = "Prepare"
             /\ work' = [work EXCEPT ![t].prep = e]
             /\ stage' = [stage EXCEPT ![t] = "FinalizeAndAssemble"] /\ UNCHANGED rejected
    BY <1>1, <2>2 DEF WorkTagged, Busy, EngineFor, ShouldUsePoA
  <2>3. CASE stage[t] = "FinalizeAndAssemble"
             /\ work' = [work EXCEPT ![t].asm = e]
             /\ stage' = [stage EXCEPT ![t] = "Seal"] /\ UNCHANGED rejected
    BY <1>1, <2>3 DEF WorkTagged, Busy, EngineFor, ShouldUsePoA
  <2>4. CASE stage[t] = "Seal"
             /\ work' = [work EXCEPT ![t].seal = e]
             /\ stage' = [stage EXCEPT ![t] = "Sealed"] /\ UNCHANGED rejected
    BY <1>1, <2>4 DEF WorkTagged, Busy, EngineFor, ShouldUsePoA
  <2>5. CASE stage' = [stage EXCEPT ![t] = "Idle"] /\ UNCHANGED <<work, rejected>>
    BY <1>1, <2>5 DEF WorkTagged, Busy
  <2>6. QED
    BY <1>2, <2>1, <2>2, <2>3, <2>4, <2>5 DEF Deliver
<1>4. rejected' = {}
  BY <1>1, <1>3
<1>5. ChainTagged'
  BY DEF IInv, ChainTagged, EngineFor, ShouldUsePoA, Accepts
<1>6. LoggedBeforeTransition'
  BY <1>3 DEF IInv, LoggedBeforeTransition
<1>7. \A u \in Threads : WorkTagged(u)'
  <2>1. WorkTagged(t)'
    BY <1>3 DEF IInv
  <2>2. ASSUME NEW u \in Threads \ {t} PROVE WorkTagged(u)'
    <3>1. WorkTagged(u)
      BY DEF IInv
    <3>2. work'[u] = work[u] /\ stage'[u] = stage[u]
      BY <1>3
    <3>3. QED
      BY <3>1, <3>2 DEF WorkTagged, EngineFor, ShouldUsePoA
  <2>3. QED
    BY <2>1, <2>2
<1>8. \A u \in Threads : PendingOfMiner(u)'
  <2>1. pending \in [Threads -> {NoPending} \cup [op : MinerOps \cup HostOps, num : Uint]]
    BY DEF IInv, TypeOK
  <2>2. PendingOfMiner(t)'
    BY <2>1 DEF PendingOfMiner
  <2>3. ASSUME NEW u \in Threads \ {t} PROVE PendingOfMiner(u)'
    <3>1. PendingOfMiner(u)
      BY DEF IInv
    <3>2. work'[u] = work[u] /\ stage'[u] = stage[u] /\ pending'[u] = pending[u]
      BY <1>3, <2>1
    <3>3. QED
      BY <3>1, <3>2 DEF PendingOfMiner
  <2>4. QED
    BY <2>2, <2>3
<1>9. QED
  BY <1>4, <1>5, <1>6, <1>7, <1>8 DEF IInv

(* A miner step of thread t through selectEngine keeps the invariant,     *)
(* both when it stops before the unlocked write of transitionLogged and   *)
(* when it goes straight to the wrapped engine.                           *)
LEMMA MinerSelect ==
    ASSUME IInv, NEW t \in Threads, stage[t] \in MinerOps,
           pending[t] = NoPending,
           SelectStep(t, stage[t], work[t].num),
           TypeOK'
    PROVE  IInv'
<1>1. pending \in [Threads -> {NoPending} \cup [op : MinerOps \cup HostOps, num : Uint]]
  BY DEF IInv, TypeOK
<1>2. CASE work[t].num = transitionBlock /\ ~transitionLogged
  <2>1. /\ pending' = [pending EXCEPT ![t] = [op |-> stage[t], num |-> work[t].num]]
        /\ UNCHANGED <<transitionBlock, head, chain, stage, work, rejected,
                       transitionLogged>>
    BY <1>2 DEF SelectStep, SelectEngine
  <2>2. rejected' = {} /\ ChainTagged' /\ LoggedBeforeTransition'
    BY <2>1 DEF IInv, ChainTagged, LoggedBeforeTransition, EngineFor,
                ShouldUsePoA, Accepts
  <2>3. \A u \in Threads : WorkTagged(u)'
    BY <2>1 DEF IInv, WorkTagged, EngineFor, ShouldUsePoA
  <2>4. PendingOfMiner(t)'
    BY <1>1, <1>2, <2>1 DEF PendingOfMiner
  <2>5. ASSUME NEW u \in Threads \ {t} PROVE PendingOfMiner(u)'
    BY <1>1, <2>1 DEF IInv, PendingOfMiner
  <2>6. QED
    BY <2>2, <2>3, <2>4, <2>5 DEF IInv
<1>3. CASE ~(work[t].num = transitionBlock /\ ~transitionLogged)
  <2>1. /\ Deliver(t, stage[t], work[t].num, EngineFor(work[t].num))
        /\ UNCHANGED <<pending, transitionBlock, head, chain, transitionLogged>>
    BY <1>3 DEF SelectStep, SelectEngine
  <2>2. pending' = [pending EXCEPT ![t] = NoPending]
    BY <1>1, <2>1
  <2>3. /\ work[t].num = transitionBlock => transitionLogged'
        /\ transitionLogged => transitionLogged'
    BY <1>3, <2>1
  <2>4. UNCHANGED <<transitionBlock, head, chain>>
    BY <2>1
  <2>5. QED
    BY <2>1, <2>2, <2>3, <2>4, DeliverMiner, Zenon
<1>4. QED
  BY <1>2, <1>3

(* The engine New returns, before any call, satisfies the invariant.      *)
LEMMA IInvInit == Init => IInv
<1> SUFFICES ASSUME Init PROVE IInv
  OBVIOUS
<1>1. TypeOK
  BY TypeInit
<1>2. ChainTagged /\ LoggedBeforeTransition
  BY DEF Init, ChainTagged, LoggedBeforeTransition, Busy
<1>3. \A t \in Threads : WorkTagged(t) /\ PendingOfMiner(t)
  BY DEF Init, WorkTagged, PendingOfMiner, Busy
<1>4. QED
  BY <1>1, <1>2, <1>3 DEF Init, IInv

(* Starting new work on top of the head keeps the invariant.             *)
LEMMA IInvStartWork ==
    ASSUME IInv, TypeOK', NEW t \in Threads, StartWork(t)
    PROVE  IInv'
<1>1. /\ work \in [Threads -> Header] /\ stage \in [Threads -> Stages]
      /\ head \in Nat /\ MaxNumber \in Nat
  BY MaxNumberNat DEF IInv, TypeOK, Uint
<1>2. /\ work'[t].num = head + 1 /\ stage'[t] = "CalcDifficulty"
      /\ \A u \in Threads \ {t} : work'[u] = work[u] /\ stage'[u] = stage[u]
  BY <1>1 DEF StartWork
<1>3. WorkTagged(t)'
  BY <1>1, <1>2 DEF StartWork, WorkTagged, Busy
<1>4. PendingOfMiner(t)'
  BY DEF StartWork, Free, PendingOfMiner
<1>5. ASSUME NEW u \in Threads \ {t} PROVE WorkTagged(u)' /\ PendingOfMiner(u)'
  BY <1>2 DEF IInv, StartWork, WorkTagged, PendingOfMiner, EngineFor, ShouldUsePoA
<1>6. rejected' = {} /\ ChainTagged' /\ LoggedBeforeTransition'
  BY <1>2 DEF IInv, StartWork, ChainTagged, LoggedBeforeTransition, Busy,
              EngineFor, ShouldUsePoA, Accepts
<1>7. QED
  BY <1>3, <1>4, <1>5, <1>6 DEF IInv

(* Inserting a sealed block: when it extends the head it carries the tags *)
(* of its own number, and the transition was logged before it got there.  *)
LEMMA IInvInsertBlock ==
    ASSUME IInv, TypeOK', NEW t \in Threads, InsertBlock(t)
    PROVE  IInv'
<1>1. /\ work \in [Threads -> Header] /\ stage \in [Threads -> Stages]
      /\ pending \in [Threads -> {NoPending} \cup [op : MinerOps \cup HostOps, num : Uint]]
      /\ head \in Nat
  BY MaxNumberNat DEF IInv, TypeOK, Uint
<1>2. /\ stage'[t] = "Idle"
      /\ \A u \in Threads \ {t} : stage'[u] = stage[u]
      /\ UNCHANGED <<transitionBlock, work, pending, transitionLogged, rejected>>
  BY <1>1 DEF InsertBlock
<1>3. pending[t] = NoPending
  BY <1>1 DEF InsertBlock, IInv, PendingOfMiner, MinerOps, HostOps
<1>4. \A u \in Threads : WorkTagged(u)' /\ PendingOfMiner(u)'
  <2>1. WorkTagged(t)' /\ PendingOfMiner(t)'
    BY <1>2, <1>3 DEF WorkTagged, PendingOfMiner, Busy
  <2>2. ASSUME NEW u \in Threads \ {t} PROVE WorkTagged(u)' /\ PendingOfMiner(u)'
    BY <1>2 DEF IInv, WorkTagged, PendingOfMiner, EngineFor, ShouldUsePoA
  <2>3. QED
    BY <2>1, <2>2
<1>5. CASE work[t].num = head + 1
  <2>1. /\ chain' = [n \in 0..(head + 1) |-> IF n = head + 1 THEN work[t] ELSE chain[n]]
        /\ head' = head + 1
    BY <1>5 DEF InsertBlock
  <2>2. Accepts(EngineFor(head + 1), work[t])
    BY <1>5 DEF InsertBlock, IInv, WorkTagged, Busy, Accepts
  <2>3. ChainTagged'
    BY <1>1, <1>2, <2>1, <2>2 DEF IInv, ChainTagged, EngineFor, ShouldUsePoA
  <2>4. transitionBlock = head + 1 => transitionLogged
    BY <1>5 DEF InsertBlock, IInv, LoggedBeforeTransition, Busy
  <2>5. LoggedBeforeTransition'
    BY <1>1, <1>2, <2>1, <2>4 DEF IInv, LoggedBeforeTransition, Busy
  <2>6. QED
    BY <1>2, <1>4, <2>3, <2>5 DEF IInv
<1>6. CASE work[t].num # head + 1
  <2>1. UNCHANGED <<chain, head>>
    BY <1>6 DEF InsertBlock
  <2>2. ChainTagged' /\ LoggedBeforeTransition'
    BY <1>2, <2>1 DEF IInv, ChainTagged, LoggedBeforeTransition, Busy,
                      EngineFor, ShouldUsePoA, Accepts
  <2>3. QED
    BY <1>2, <1>4, <2>2 DEF IInv
<1>7. QED
  BY <1>5, <1>6

(* A rewind keeps a prefix of the chain.                                  *)
LEMMA IInvSetHead ==
    ASSUME IInv, TypeOK', NEW n \in Uint, SetHead(n)
    PROVE  IInv'
<1>1. head \in Nat /\ n \in Nat
  BY MaxNumberNat DEF IInv, TypeOK, Uint
<1>2. ChainTagged'
  BY <1>1 DEF SetHead, IInv, ChainTagged, EngineFor, ShouldUsePoA, Accepts
<1>3. LoggedBeforeTransition'
  BY <1>1 DEF SetHead, IInv, LoggedBeforeTransition
<1>4. \A t \in Threads : WorkTagged(t)' /\ PendingOfMiner(t)'
  BY DEF SetHead, IInv, WorkTagged, PendingOfMiner, EngineFor, ShouldUsePoA
<1>5. QED
  BY <1>2, <1>3, <1>4 DEF SetHead, IInv

(* Author, VerifyHeader and VerifyUncles compare with transitionBlock    *)
(* themselves and pick the engine selectEngine would.                     *)
LEMMA IInvDirect ==
    ASSUME IInv, TypeOK', NEW t \in Threads, NEW n \in Uint,
           Author(t, n) \/ VerifyHeader(t, n) \/ VerifyUncles(t, n)
    PROVE  IInv'
<1>1. /\ n \in 1..head
      /\ DirectOp(n, IF n < transitionBlock THEN PoS ELSE PoA)
  BY DEF Author, VerifyHeader, VerifyUncles
<1>2. (IF n < transitionBlock THEN PoS ELSE PoA) = EngineFor(n)
  BY MaxNumberNat DEF IInv, TypeOK, Uint, EngineFor, ShouldUsePoA
<1>3. rejected' = {}
  BY <1>1, <1>2 DEF DirectOp, RunOnChain, IInv, ChainTagged
<1>4. QED
  BY <1>1, <1>3 DEF DirectOp, IInv, ChainTagged, LoggedBeforeTransition,
                    WorkTagged, PendingOfMiner, EngineFor, ShouldUsePoA, Accepts

(* Finalize and SealHash on a chain block: the block is past the          *)
(* transition only once the transition was logged, so the call never     *)
(* stops before the flag; it reaches the engine that made the block.      *)
LEMMA IInvHostSelect ==
    ASSUME IInv, TypeOK', NEW t \in Threads, NEW n \in Uint,
           Finalize(t, n) \/ SealHash(t, n)
    PROVE  IInv'
<1> DEFINE op == IF Finalize(t, n) THEN "Finalize" ELSE "SealHash"
<1>1. /\ n \in 1..head /\ op \in HostOps
      /\ SelectStep(t, op, n)
  BY DEF Finalize, SealHash, HostOps
<1>2. ~(n = transitionBlock /\ ~transitionLogged)
  BY <1>1 DEF IInv, LoggedBeforeTransition
<1>3. /\ RunOnChain(n, EngineFor(n))
      /\ UNCHANGED <<stage, work, pending, transitionBlock, head, chain,
                     transitionLogged>>
  <2>1. op \notin MinerOps
    BY DEF HostOps, MinerOps
  <2>2. QED
    BY <1>1, <1>2, <2>1 DEF SelectStep, SelectEngine, Deliver
<1>4. rejected' = {}
  BY <1>1, <1>3 DEF RunOnChain, IInv, ChainTagged
<1>5. QED
  BY <1>3, <1>4 DEF IInv, ChainTagged, LoggedBeforeTransition,
                    WorkTagged, PendingOfMiner, EngineFor, ShouldUsePoA, Accepts

(* The second half of a selectEngine call that saw transitionLogged       *)
(* false: it sets the flag and delegates the miner step it belongs to.    *)
LEMMA IInvSelectLog ==
    ASSUME IInv, TypeOK', NEW t \in Threads, SelectLog(t)
    PROVE  IInv'
<1>1. pending \in [Threads -> {NoPending} \cup [op : MinerOps \cup HostOps, num : Uint]]
      /\ stage \in [Threads -> Stages]
  BY DEF IInv, TypeOK
<1>2. /\ pending[t].op = stage[t]
      /\ pending[t].num = work[t].num
  BY DEF SelectLog, IInv, PendingOfMiner
<1>3. stage[t] \in MinerOps
  <2>1. pending[t] \in [op : MinerOps \cup HostOps, num : Uint]
    BY <1>1 DEF SelectLog
  <2>2. stage[t] \notin HostOps
    BY <1>1 DEF Stages, HostOps
  <2>3. QED
    BY <1>2, <2>1, <2>2
<1>4. /\ Deliver(t, stage[t], work[t].num, EngineFor(work[t].num))
      /\ transitionLogged' = TRUE
      /\ pending' = [pending EXCEPT ![t] = NoPending]
      /\ UNCHANGED <<transitionBlock, head, chain>>
  BY <1>2 DEF SelectLog
<1>5. QED
  BY <1>3, <1>4, DeliverMiner, Zenon

(* Prepare of the transition block writes the checkpoint extra and the   *)
(* PoA tag, the engine of that number, without selectEngine.              *)
LEMMA IInvPrepareTransition ==
    ASSUME IInv, TypeOK', NEW t \in Threads,
           stage[t] = "Prepare", pending[t] = NoPending,
           work[t].num = transitionBlock, PrepareTransitionBlock(t),
           UNCHANGED <<transitionBlock, head, chain, pending, transitionLogged,
                       transitionLogs, lastLoggedEngine, rejected, closed, closeErr>>
    PROVE  IInv'
<1>1. work \in [Threads -> Header] /\ stage \in [Threads -> Stages]
  BY DEF IInv, TypeOK
<1>2. EngineFor(work[t].num) = PoA
  BY DEF EngineFor, ShouldUsePoA, IInv, TypeOK, Uint
<1>3. /\ work'[t] = [work[t] EXCEPT !.extra = CheckpointExtra, !.prep = PoA]
      /\ stage'[t] \in {"FinalizeAndAssemble", "Idle"}
      /\ \A u \in Threads \ {t} : work'[u] = work[u] /\ stage'[u] = stage[u]
  BY <1>1 DEF PrepareTransitionBlock
<1>4. WorkTagged(t)'
  BY <1>1, <1>2, <1>3 DEF IInv, WorkTagged, Busy, EngineFor, ShouldUsePoA
<1>5. LoggedBeforeTransition'
  BY <1>1, <1>3 DEF IInv, LoggedBeforeTransition, Busy
<1>6. ASSUME NEW u \in Threads \ {t} PROVE WorkTagged(u)'
  BY <1>3 DEF IInv, WorkTagged, EngineFor, ShouldUsePoA
<1>7. \A u \in Threads : PendingOfMiner(u)'
  BY <1>3 DEF IInv, PendingOfMiner
<1>8. ChainTagged'
  BY DEF IInv, ChainTagged, EngineFor, ShouldUsePoA, Accepts
<1>9. QED
  BY <1>4, <1>5, <1>6, <1>7, <1>8 DEF IInv

(* Every operation, whatever thread runs it, keeps the invariant.        *)
LEMMA IInvStep == IInv /\ [Next]_vars => IInv'
<1> SUFFICES ASSUME IInv, [Next]_vars PROVE IInv'
  OBVIOUS
<1>0. TypeOK'
  BY TypeStep DEF IInv
<1>1. ASSUME NEW t \in Threads, StartWork(t) PROVE IInv'
  BY <1>0, <1>1, IInvStartWork
<1>2. ASSUME NEW t \in Threads, CalcDifficulty(t) PROVE IInv'
  <2>1. work[t].num \in 1..MaxNumber /\ MaxNumber \in Nat
    BY <1>2, MaxNumberNat DEF CalcDifficulty, IInv, WorkTagged, Busy
  <2>2. ((work[t].num - 1) + 1) % (MaxNumber + 1) = work[t].num
    BY <2>1
  <2>3. SelectStep(t, stage[t], work[t].num) /\ stage[t] \in MinerOps
    BY <1>2, <2>2 DEF CalcDifficulty, MinerOps
  <2>4. QED
    BY <1>0, <1>2, <2>3, MinerSelect DEF CalcDifficulty
<1>3. ASSUME NEW t \in Threads, Prepare(t) PROVE IInv'
  <2>1. CASE work[t].num = transitionBlock
    BY <1>0, <1>3, <2>1, IInvPrepareTransition DEF Prepare
  <2>2. CASE work[t].num # transitionBlock
    <3>1. SelectStep(t, stage[t], work[t].num) /\ stage[t] \in MinerOps
      BY <1>3, <2>2 DEF Prepare, MinerOps
    <3>2. QED
      BY <1>0, <1>3, <3>1, MinerSelect DEF Prepare
  <2>3. QED
    BY <2>1, <2>2
<1>4. ASSUME NEW t \in Threads, FinalizeAndAssemble(t) PROVE IInv'
  <2>1. SelectStep(t, stage[t], work[t].num) /\ stage[t] \in MinerOps
    BY <1>4 DEF FinalizeAndAssemble, MinerOps
  <2>2. QED
    BY <1>0, <1>4, <2>1, MinerSelect DEF FinalizeAndAssemble
<1>5. ASSUME NEW t \in Threads, Seal(t) PROVE IInv'
  <2>1. SelectStep(t, stage[t], work[t].num) /\ stage[t] \in MinerOps
    BY <1>5 DEF Seal, MinerOps
  <2>2. QED
    BY <1>0, <1>5, <2>1, MinerSelect DEF Seal
<1>6. ASSUME NEW t \in Threads, SelectLog(t) PROVE IInv'
  BY <1>0, <1>6, IInvSelectLog
<1>7. ASSUME NEW t \in Threads, InsertBlock(t) PROVE IInv'
  BY <1>0, <1>7, IInvInsertBlock
<1>8. ASSUME NEW t \in Threads, NEW n \in Uint,
             Author(t, n) \/ VerifyHeader(t, n) \/ VerifyUncles(t, n)
      PROVE  IInv'
  BY <1>0, <1>8, IInvDirect
<1>9. ASSUME NEW t \in Threads, NEW n \in Uint, Finalize(t, n) \/ SealHash(t, n)
      PROVE  IInv'
  BY <1>0, <1>9, IInvHostSelect
<1>10. ASSUME NEW errPoS \in BOOLEAN, NEW errPoA \in BOOLEAN, Close(errPoS, errPoA)
       PROVE  IInv'
  BY <1>0, <1>10 DEF Close, IInv, ChainTagged, LoggedBeforeTransition,
                     WorkTagged, PendingOfMiner, EngineFor, ShouldUsePoA, Accepts
<1>11. ASSUME NEW n \in Uint, SetHead(n) PROVE IInv'
  BY <1>0, <1>11, IInvSetHead
<1>12. CASE UNCHANGED vars
  BY <1>0, <1>12 DEF vars, IInv, ChainTagged, LoggedBeforeTransition,
                     WorkTagged, PendingOfMiner, EngineFor, ShouldUsePoA, Accepts
<1>13. QED
  BY <1>1, <1>2, <1>3, <1>4, <1>5, <1>6, <1>7, <1>8, <1>9, <1>10, <1>11,
     <1>12 DEF Next

(* Whatever the threads interleave, however the head is rewound and      *)
(* whichever wrapped calls fail, no operation on one of the node's own    *)
(* blocks is handed to an engine other than the one that produced it.    *)
THEOREM OwnBlocksSafe == Spec => []OwnBlocksAccepted
<1>1. IInv => OwnBlocksAccepted
  BY DEF IInv, OwnBlocksAccepted
<1>2. QED
  BY <1>1, IInvInit, IInvStep, PTL DEF Spec

-----------------------------------------------------------------------------
(* The transition block never changes, and the flag is set only together  *)
(* with the emitted log.                                                   *)
LogCounted ==
    /\ transitionBlock \in TransitionBlocks
    /\ transitionLogged => transitionLogs >= 1

LEMMA LogCountedInit == Init => LogCounted
BY DEF Init, LogCounted

(* Only SelectLog touches the flag, and it emits the log as it sets it.   *)
LEMMA LogCountedStep == TypeOK /\ LogCounted /\ [Next]_vars => LogCounted'
<1> SUFFICES ASSUME TypeOK, LogCounted, [Next]_vars PROVE LogCounted'
  OBVIOUS
<1> DEFINE Kept == UNCHANGED <<transitionBlock, transitionLogged, transitionLogs>>
<1>1. ASSUME NEW t \in Threads, SelectLog(t) PROVE LogCounted'
  BY <1>1 DEF SelectLog, LogCounted, TypeOK
<1>2. ASSUME NEW t \in Threads,
             \/ StartWork(t) \/ CalcDifficulty(t) \/ Prepare(t)
             \/ FinalizeAndAssemble(t) \/ Seal(t) \/ InsertBlock(t)
      PROVE  Kept
  BY <1>2 DEF StartWork, CalcDifficulty, Prepare, FinalizeAndAssemble, Seal,
              InsertBlock, SelectStep
<1>3. ASSUME NEW t \in Threads, NEW n \in Uint,
             \/ Author(t, n) \/ VerifyHeader(t, n) \/ VerifyUncles(t, n)
             \/ Finalize(t, n) \/ SealHash(t, n)
      PROVE  Kept
  BY <1>3 DEF Author, VerifyHeader, VerifyUncles, Finalize, SealHash,
              DirectOp, SelectStep
<1>4. ASSUME NEW errPoS \in BOOLEAN, NEW errPoA \in BOOLEAN, Close(errPoS, errPoA)
      PROVE  Kept
  BY <1>4 DEF Close
<1>5. ASSUME NEW n \in Uint, SetHead(n) PROVE Kept
  BY <1>5 DEF SetHead
<1>6. Kept => LogCounted'
  BY DEF LogCounted
<1>. QED
  BY <1>1, <1>2, <1>3, <1>4, <1>5, <1>6 DEF Next, vars

(* Whatever the threads interleave and however the head is rewound, a     *)
(* chain that holds the transition block has logged the switch to PoA     *)
(* (Requirement 4.1), for every transition block above genesis: the miner *)
(* passes block H through selectEngine in CalcDifficulty before it can    *)
(* insert it, though Prepare of H bypasses it.                             *)
THEOREM TransitionLogged ==
    ASSUME 0 \notin TransitionBlocks
    PROVE  Spec => []TransitionLoggedWhenReached
<1>1. IInv /\ LogCounted => TransitionLoggedWhenReached
  <2> SUFFICES ASSUME IInv, LogCounted, head >= transitionBlock
               PROVE  transitionLogs >= 1
    BY DEF TransitionLoggedWhenReached
  <2>1. transitionBlock \in 1..head
    BY DEF IInv, TypeOK, LogCounted, Uint
  <2>. QED  BY <2>1 DEF IInv, LoggedBeforeTransition, LogCounted
<1>2. Init => IInv /\ LogCounted
  BY IInvInit, LogCountedInit
<1>3. IInv /\ LogCounted /\ [Next]_vars => (IInv /\ LogCounted)'
  BY IInvStep, LogCountedStep DEF IInv
<1>. QED  BY <1>1, <1>2, <1>3, PTL DEF Spec

=============================================================================
