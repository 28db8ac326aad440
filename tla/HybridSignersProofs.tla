------------------------- MODULE HybridSignersProofs -------------------------
(***************************************************************************)
(* Proof that prepareTransitionBlock seeds the initial signer set once:    *)
(* the transition block of the chain carries defaultInitialSigners in the  *)
(* layout clique reads, and no other block does.                           *)
(***************************************************************************)
EXTENDS HybridEngineProofs

(* The zeroed vanity and seal of the genesis extraData.                   *)
GenesisExtra == GenesisHeader.extra

(* The extra fields a header can carry: none yet (new work), the genesis  *)
(* one, or the checkpoint extra, and that one only at the transition.     *)
KnownExtra(h) ==
    \/ h.extra \in {<<>>, GenesisExtra}
    \/ h.extra = CheckpointExtra /\ h.num = transitionBlock

(* Work at the transition block that is past Prepare carries the          *)
(* checkpoint extra.                                                       *)
Prepared == {"FinalizeAndAssemble", "Seal", "Sealed"}

(* What thread t's work carries. A pending selectEngine call is never     *)
(* Prepare's: Prepare selects only away from the transition, and only the *)
(* transition block suspends.                                              *)
ThreadSeeded(t) ==
    /\ KnownExtra(work[t])
    /\ stage[t] \in Prepared /\ work[t].num = transitionBlock
          => work[t].extra = CheckpointExtra
    /\ pending[t].op # "Prepare"

(* Every block of the chain sits at its own number and carries a known    *)
(* extra; the transition block, once in the chain, the checkpoint one.    *)
ChainSeeded == \A n \in DOMAIN chain : chain[n].num = n /\ KnownExtra(chain[n])
TransitionSeeded == head >= transitionBlock => chain[transitionBlock].extra = CheckpointExtra

(* The invariant behind SignersSeededAtTransition.                        *)
SeedInv ==
    /\ transitionBlock \in TransitionBlocks
    /\ ChainSeeded
    /\ \A t \in Threads : ThreadSeeded(t)
    /\ TransitionSeeded
-----------------------------------------------------------------------------
(* Euclidean division: q*a + r with r < a has quotient q and remainder r. *)
LEMMA DivMod ==
    ASSUME NEW q \in Nat, NEW r \in Nat, NEW a \in Nat \ {0}, r < a
    PROVE  (q * a + r) \div a = q /\ (q * a + r) % a = r
BY SMT

(* A whole number of addresses divides evenly.                            *)
LEMMA MulDiv ==
    ASSUME NEW n \in Nat, NEW a \in Nat \ {0}
    PROVE  (n * a) % a = 0 /\ (n * a) \div a = n
BY SMT

(* The checkpoint extra is vanity, N addresses and seal long.             *)
LEMMA CheckpointExtraLen ==
    Len(CheckpointExtra) = ExtraVanity + Len(InitialSigners) * AddressLength + ExtraSeal
<1> DEFINE L == ExtraVanity + Len(InitialSigners) * AddressLength + ExtraSeal
<1>0. Len(InitialSigners) \in Nat /\ Len(InitialSigners) * AddressLength \in Nat
  BY SignerFacts, NatProduct, LayoutAssumption
<1>1. L \in Nat
  BY <1>0, LayoutAssumption
<1>2. DOMAIN CheckpointExtra = 1..L
  BY DEF CheckpointExtra
<1>. QED  BY <1>1, <1>2, CheckpointExtraType

(* Clique reads back exactly defaultInitialSigners from the extra that    *)
(* prepareTransitionBlock writes: address i, byte b sits at               *)
(* extraVanity + (i-1)*AddressLength + b.                                  *)
LEMMA SignersOfCheckpoint == CheckpointSigners(CheckpointExtra) = InitialSigners
<1> DEFINE N == Len(InitialSigners)
           A == AddressLength
           V == ExtraVanity
           m == Len(CheckpointExtra) - ExtraVanity - ExtraSeal
<1>1. N \in Nat \ {0} /\ A \in Nat \ {0} /\ V \in Nat /\ ExtraSeal \in Nat
      /\ N * A \in Nat
  BY SignerFacts, NatProduct, LayoutAssumption
<1>2. m = N * A
  BY <1>1, CheckpointExtraLen
<1>3. ~(Len(CheckpointExtra) < V + ExtraSeal) /\ m % A = 0 /\ m \div A = N
  <2>1. (N * A) % A = 0 /\ (N * A) \div A = N
    BY <1>1, MulDiv
  <2>2. ~(Len(CheckpointExtra) < V + ExtraSeal)
    BY <1>1, CheckpointExtraLen
  <2>. QED  BY <1>2, <2>1, <2>2
<1>4. CheckpointSigners(CheckpointExtra) =
          [i \in 1..N |-> [b \in 1..A |-> CheckpointExtra[V + (i - 1) * A + b]]]
  BY <1>3 DEF CheckpointSigners
<1>5. ASSUME NEW i \in 1..N, NEW b \in 1..A
      PROVE  CheckpointExtra[V + (i - 1) * A + b] = InitialSigners[i][b]
  <2> DEFINE j == V + (i - 1) * A + b
             k == (i - 1) * A + (b - 1)
  <2>1. (i - 1) \in Nat /\ (b - 1) \in Nat /\ b - 1 < A /\ (i - 1) * A \in Nat
    BY <1>1, NatProduct
  <2>2. k \div A = i - 1 /\ k % A = b - 1
    BY <1>1, <2>1, DivMod
  <2>3. k < N * A
    <3>1. (i - 1) * A + A <= N * A
      BY <1>1, <2>1, SMT
    <3>. QED  BY <1>1, <2>1, <3>1, SMT
  <2>4. j \in 1..(V + N * A + ExtraSeal) /\ j > V /\ j - V - 1 = k
    BY <1>1, <2>1, <2>3
  <2>5. CheckpointExtra[j] = InitialSigners[(k \div A) + 1][(k % A) + 1]
    BY <2>3, <2>4 DEF CheckpointExtra
  <2>. QED  BY <2>1, <2>2, <2>5
<1>6. ASSUME NEW i \in 1..N
      PROVE  [b \in 1..A |-> CheckpointExtra[V + (i - 1) * A + b]] = InitialSigners[i]
  <2>1. InitialSigners[i] \in [1..A -> Nat \ {0}]
    BY SignerFacts
  <2>. QED  BY <1>5, <2>1
<1>7. InitialSigners = [i \in 1..N |-> InitialSigners[i]]
  BY SignersAssumption
<1>. QED  BY <1>4, <1>6, <1>7

(* Neither new work nor the genesis block carries a signer list.          *)
LEMMA SignersOfOthers ==
    /\ CheckpointSigners(<<>>) # InitialSigners
    /\ CheckpointSigners(GenesisExtra) # InitialSigners
<1>1. Len(InitialSigners) \in Nat \ {0} /\ AddressLength \in Nat \ {0}
      /\ ExtraVanity \in Nat /\ ExtraSeal \in Nat
  BY SignerFacts, LayoutAssumption
<1>2. Len(GenesisExtra) = ExtraVanity + ExtraSeal
  BY <1>1 DEF GenesisExtra, GenesisHeader
<1>3. CheckpointSigners(<<>>) = <<>> \/ CheckpointSigners(<<>>) = [i \in 1..0 |-> 0]
  BY <1>1, MulDiv DEF CheckpointSigners, InvalidSigners
<1>4. CheckpointSigners(GenesisExtra) = [i \in 1..0 |-> 0]
  BY <1>1, <1>2, MulDiv DEF CheckpointSigners
<1>5. 1 \in DOMAIN InitialSigners /\ DOMAIN InitialSigners # {}
  <2>1. InitialSigners \in Seq([1..AddressLength -> Nat \ {0}])
    BY SignersAssumption
  <2>2. DOMAIN InitialSigners = 1..Len(InitialSigners)
    BY <2>1
  <2>. QED  BY <1>1, <2>2
<1>. QED  BY <1>3, <1>4, <1>5

-----------------------------------------------------------------------------
(* The wrapped engine's step never touches a header's number or extra,   *)
(* moves only its caller, and moves it into the prepared stages only from *)
(* Prepare, FinalizeAndAssemble or Seal.                                  *)
LEMMA DeliverExtra ==
    ASSUME TypeOK, NEW t \in Threads, NEW op \in MinerOps \cup HostOps,
           NEW n \in Uint, NEW eng \in Engines, Deliver(t, op, n, eng)
    PROVE  /\ \A u \in Threads : /\ work'[u].num = work[u].num
                                 /\ work'[u].extra = work[u].extra
           /\ \A u \in Threads \ {t} : stage'[u] = stage[u]
           /\ stage'[t] \in Prepared =>
                 stage'[t] = stage[t] \/ op \in {"Prepare"} \cup Prepared
<1>1. work \in [Threads -> Header] /\ stage \in [Threads -> Stages]
  BY DEF TypeOK
<1>2. CASE op \in HostOps /\ UNCHANGED <<stage, work>>
  BY <1>2
<1>3. CASE op = "CalcDifficulty" /\ work' = [work EXCEPT ![t].diff = eng]
           /\ stage' = [stage EXCEPT ![t] = "Prepare"]
  BY <1>1, <1>3 DEF Prepared, Header
<1>4. CASE op = "Prepare" /\ work' = [work EXCEPT ![t].prep = eng]
           /\ stage' = [stage EXCEPT ![t] = "FinalizeAndAssemble"]
  BY <1>1, <1>4 DEF Prepared, Header
<1>5. CASE op = "FinalizeAndAssemble" /\ work' = [work EXCEPT ![t].asm = eng]
           /\ stage' = [stage EXCEPT ![t] = "Seal"]
  BY <1>1, <1>5 DEF Prepared, Header
<1>6. CASE op = "Seal" /\ work' = [work EXCEPT ![t].seal = eng]
           /\ stage' = [stage EXCEPT ![t] = "Sealed"]
  BY <1>1, <1>6 DEF Prepared, Header
<1>7. CASE stage' = [stage EXCEPT ![t] = "Idle"] /\ UNCHANGED work
  BY <1>1, <1>7 DEF Prepared
<1>. QED  BY <1>2, <1>3, <1>4, <1>5, <1>6, <1>7 DEF Deliver

(* A step that leaves the transition block, the head and the chain alone *)
(* and keeps every thread seeded keeps the invariant.                     *)
LEMMA SeedFrame ==
    ASSUME SeedInv, UNCHANGED <<transitionBlock, head, chain>>,
           \A u \in Threads : ThreadSeeded(u)'
    PROVE  SeedInv'
BY DEF SeedInv, ChainSeeded, TransitionSeeded, KnownExtra

(* A selectEngine call, for a host operation or for the miner step its    *)
(* thread is at (Prepare only away from the transition), keeps it.        *)
LEMMA SeedSelect ==
    ASSUME TypeOK, SeedInv, NEW t \in Threads, NEW op \in MinerOps \cup HostOps,
           NEW n \in Uint, SelectStep(t, op, n),
           op \in HostOps \/ (op = stage[t] /\ n = work[t].num),
           op = "Prepare" => n # transitionBlock
    PROVE  SeedInv'
<1>1. pending \in [Threads -> {NoPending} \cup [op : MinerOps \cup HostOps, num : Uint]]
      /\ EngineFor(n) \in Engines
  BY DEF TypeOK, EngineFor, Engines
<1>2. CASE n = transitionBlock /\ ~transitionLogged
           /\ pending' = [pending EXCEPT ![t] = [op |-> op, num |-> n]]
           /\ UNCHANGED <<stage, work>>
  <2>1. op # "Prepare"
    BY <1>2
  <2>2. \A u \in Threads : pending'[u].op # "Prepare"
    BY <1>1, <1>2, <2>1 DEF SeedInv, ThreadSeeded
  <2>. QED
    BY <1>2, <2>2, SeedFrame DEF SelectStep, SeedInv, ThreadSeeded, KnownExtra
<1>3. CASE Deliver(t, op, n, EngineFor(n)) /\ UNCHANGED pending
  <2>1. /\ \A u \in Threads : /\ work'[u].num = work[u].num
                              /\ work'[u].extra = work[u].extra
        /\ \A u \in Threads \ {t} : stage'[u] = stage[u]
        /\ stage'[t] \in Prepared =>
              stage'[t] = stage[t] \/ op \in {"Prepare"} \cup Prepared
    BY <1>1, <1>3, DeliverExtra
  <2>2. stage'[t] \in Prepared /\ work'[t].num = transitionBlock
            => work'[t].extra = CheckpointExtra
    <3> SUFFICES ASSUME stage'[t] \in Prepared, work'[t].num = transitionBlock
                 PROVE  work'[t].extra = CheckpointExtra
      OBVIOUS
    <3>1. CASE op \in HostOps
      <4>1. stage'[t] = stage[t]
        BY <1>3, <3>1 DEF Deliver, MinerOps, HostOps
      <4>. QED  BY <2>1, <4>1 DEF SelectStep, SeedInv, ThreadSeeded
    <3>2. CASE op = stage[t] /\ n = work[t].num
      <4>1. op # "Prepare"
        BY <2>1, <3>2 DEF SelectStep
      <4>2. stage[t] \in Prepared
        BY <2>1, <3>2, <4>1
      <4>. QED  BY <2>1, <4>2 DEF SelectStep, SeedInv, ThreadSeeded
    <3>. QED  BY <3>1, <3>2
  <2>3. ASSUME NEW u \in Threads PROVE ThreadSeeded(u)'
    <3>1. KnownExtra(work[u])'
      BY <2>1 DEF SelectStep, SeedInv, ThreadSeeded, KnownExtra
    <3>2. u # t => ThreadSeeded(u)'
      BY <1>3, <2>1, <3>1 DEF SelectStep, SeedInv, ThreadSeeded
    <3>3. u = t => ThreadSeeded(u)'
      BY <1>3, <2>2, <3>1 DEF SelectStep, SeedInv, ThreadSeeded
    <3>. QED  BY <3>2, <3>3
  <2>. QED  BY <2>3, SeedFrame DEF SelectStep
<1>. QED  BY <1>2, <1>3 DEF SelectStep, SelectEngine

(* The node starts at genesis, below every transition block it allows.   *)
LEMMA SeedInit ==
    ASSUME 0 \notin TransitionBlocks PROVE Init => SeedInv
<1> SUFFICES ASSUME Init PROVE SeedInv
  OBVIOUS
<1>1. transitionBlock \in Nat /\ transitionBlock # 0
  BY TransitionBlocksAssumption DEF Init, Uint
<1>2. ChainSeeded
  BY DEF Init, ChainSeeded, KnownExtra, GenesisExtra, GenesisHeader
<1>3. TransitionSeeded
  BY <1>1 DEF Init, TransitionSeeded
<1>4. \A t \in Threads : ThreadSeeded(t)
  BY DEF Init, ThreadSeeded, KnownExtra, GenesisExtra, NoPending, None, Prepared
<1>. QED  BY <1>2, <1>3, <1>4 DEF Init, SeedInv

(* New work carries no extra.                                             *)
LEMMA SeedStartWork ==
    ASSUME TypeOK, SeedInv, NEW t \in Threads, StartWork(t) PROVE SeedInv'
<1>1. \A u \in Threads : ThreadSeeded(u)'
  BY DEF StartWork, TypeOK, SeedInv, ThreadSeeded, KnownExtra, Prepared
<1>. QED  BY <1>1, SeedFrame DEF StartWork

(* prepareTransitionBlock writes the checkpoint extra into the work for   *)
(* the transition block, and only there.                                  *)
LEMMA SeedPrepareTransition ==
    ASSUME TypeOK, SeedInv, NEW t \in Threads, stage[t] = "Prepare",
           work[t].num = transitionBlock, PrepareTransitionBlock(t),
           UNCHANGED <<transitionBlock, head, chain, pending>>
    PROVE  SeedInv'
<1>1. work \in [Threads -> Header] /\ stage \in [Threads -> Stages]
  BY DEF TypeOK
<1>2. /\ work'[t].num = transitionBlock /\ work'[t].extra = CheckpointExtra
      /\ \A u \in Threads \ {t} : work'[u] = work[u] /\ stage'[u] = stage[u]
  BY <1>1 DEF PrepareTransitionBlock, Header
<1>3. \A u \in Threads : ThreadSeeded(u)'
  BY <1>2 DEF SeedInv, ThreadSeeded, KnownExtra
<1>. QED  BY <1>3, SeedFrame

(* The logging half of selectEngine delegates the call that suspended,    *)
(* which is the step of its thread's miner and not Prepare.               *)
LEMMA SeedSelectLog ==
    ASSUME IInv, SeedInv, NEW t \in Threads, SelectLog(t) PROVE SeedInv'
<1> DEFINE op == pending[t].op
           n == pending[t].num
<1>1. pending \in [Threads -> {NoPending} \cup [op : MinerOps \cup HostOps, num : Uint]]
      /\ stage \in [Threads -> Stages]
  BY DEF IInv, TypeOK
<1>2. op = stage[t] /\ n = work[t].num /\ op # "Prepare" /\ n \in Uint
      /\ op \in MinerOps \cup HostOps
  <2>1. pending[t] # NoPending
    BY DEF SelectLog
  <2>2. pending[t] \in [op : MinerOps \cup HostOps, num : Uint]
    BY <1>1, <2>1
  <2>3. op = stage[t] /\ n = work[t].num
    BY <2>1 DEF IInv, PendingOfMiner
  <2>4. op # "Prepare"
    BY DEF SeedInv, ThreadSeeded
  <2>. QED  BY <2>2, <2>3, <2>4
<1>3. EngineFor(n) \in Engines /\ TypeOK
  BY DEF EngineFor, Engines, IInv
<1>4. /\ \A u \in Threads : /\ work'[u].num = work[u].num
                            /\ work'[u].extra = work[u].extra
      /\ \A u \in Threads \ {t} : stage'[u] = stage[u]
      /\ stage'[t] \in Prepared =>
            stage'[t] = stage[t] \/ op \in {"Prepare"} \cup Prepared
  BY <1>2, <1>3, DeliverExtra DEF SelectLog
<1>5. \A u \in Threads : pending'[u].op # "Prepare"
  BY <1>1 DEF SelectLog, SeedInv, ThreadSeeded, NoPending, None
<1>6. \A u \in Threads : ThreadSeeded(u)'
  BY <1>2, <1>4, <1>5 DEF SelectLog, SeedInv, ThreadSeeded, KnownExtra
<1>. QED  BY <1>6, SeedFrame DEF SelectLog

(* The miner inserts its sealed work only on top of the head: at the      *)
(* transition height that work carries the checkpoint extra.              *)
LEMMA SeedInsertBlock ==
    ASSUME TypeOK, SeedInv, NEW t \in Threads, InsertBlock(t) PROVE SeedInv'
<1>1. chain \in [0..head -> Header] /\ head \in Nat /\ transitionBlock \in Nat
      /\ stage[t] = "Sealed"
  BY DEF TypeOK, Uint, InsertBlock
<1>2. \A u \in Threads : ThreadSeeded(u)'
  BY DEF InsertBlock, SeedInv, ThreadSeeded, KnownExtra, Prepared
<1>3. CASE work[t].num = head + 1
  <2>1. chain' = [n \in 0..(head + 1) |-> IF n = head + 1 THEN work[t] ELSE chain[n]]
        /\ head' = head + 1 /\ UNCHANGED transitionBlock
    BY <1>3 DEF InsertBlock
  <2>2. ChainSeeded'
    BY <1>1, <1>3, <2>1 DEF SeedInv, ChainSeeded, ThreadSeeded, KnownExtra
  <2>3. TransitionSeeded'
    <3>1. CASE transitionBlock = head + 1
      <4>1. work[t].extra = CheckpointExtra
        BY <1>1, <1>3, <3>1 DEF SeedInv, ThreadSeeded, Prepared
      <4>2. chain'[transitionBlock] = work[t]
        BY <1>1, <2>1, <3>1
      <4>. QED  BY <4>1, <4>2, <2>1 DEF TransitionSeeded
    <3>2. CASE transitionBlock # head + 1
      BY <1>1, <2>1, <3>2 DEF SeedInv, TransitionSeeded
    <3>. QED  BY <3>1, <3>2
  <2>. QED  BY <1>2, <2>1, <2>2, <2>3 DEF SeedInv
<1>4. CASE work[t].num # head + 1
  BY <1>2, <1>4, SeedFrame DEF InsertBlock
<1>. QED  BY <1>3, <1>4

(* A reorg keeps the blocks up to its new head as they were.              *)
LEMMA SeedSetHead ==
    ASSUME TypeOK, SeedInv, NEW n \in Uint, SetHead(n) PROVE SeedInv'
<1>1. head \in Nat /\ n \in Nat /\ transitionBlock \in Nat
  BY DEF TypeOK, Uint
<1>2. ChainSeeded'
  <2>1. chain' = [m \in 0..n |-> chain[m]] /\ n < head /\ UNCHANGED transitionBlock
    BY DEF SetHead
  <2>2. DOMAIN chain = 0..head
    BY DEF TypeOK
  <2>3. ASSUME NEW m \in DOMAIN chain' PROVE chain'[m] = chain[m] /\ m \in DOMAIN chain
    BY <1>1, <2>1, <2>2
  <2>4. \A m \in DOMAIN chain : chain[m].num = m /\ KnownExtra(chain[m])
    BY DEF SeedInv, ChainSeeded
  <2>. QED  BY <2>1, <2>3, <2>4 DEF ChainSeeded, KnownExtra
<1>3. TransitionSeeded'
  BY <1>1 DEF SetHead, SeedInv, TransitionSeeded
<1>4. \A u \in Threads : ThreadSeeded(u)'
  BY DEF SetHead, SeedInv, ThreadSeeded, KnownExtra
<1>. QED  BY <1>2, <1>3, <1>4 DEF SetHead, SeedInv

(* Every operation, whatever thread runs it, keeps the invariant.        *)
LEMMA SeedStep == IInv /\ SeedInv /\ [Next]_vars => SeedInv'
<1> SUFFICES ASSUME IInv, SeedInv, [Next]_vars PROVE SeedInv'
  OBVIOUS
<1>0. TypeOK
  BY DEF IInv
<1>1. ASSUME NEW t \in Threads, StartWork(t) PROVE SeedInv'
  BY <1>0, <1>1, SeedStartWork
<1>2. ASSUME NEW t \in Threads, CalcDifficulty(t) PROVE SeedInv'
  <2>1. work[t].num \in 1..MaxNumber /\ MaxNumber \in Nat
    BY <1>2, MaxNumberNat DEF CalcDifficulty, IInv, WorkTagged, Busy
  <2>2. ((work[t].num - 1) + 1) % (MaxNumber + 1) = work[t].num
    BY <2>1
  <2>3. work[t].num \in Uint /\ stage[t] \in MinerOps
    BY <1>2, <2>1 DEF CalcDifficulty, MinerOps, Uint
  <2>. QED  BY <1>0, <1>2, <2>2, <2>3, SeedSelect DEF CalcDifficulty
<1>3. ASSUME NEW t \in Threads, Prepare(t) PROVE SeedInv'
  <2>1. work[t].num \in Uint /\ stage[t] = "Prepare" /\ stage[t] \in MinerOps
    BY <1>0, <1>3 DEF Prepare, TypeOK, Header, MinerOps
  <2>2. CASE work[t].num = transitionBlock
    BY <1>0, <1>3, <2>1, <2>2, SeedPrepareTransition DEF Prepare
  <2>3. CASE work[t].num # transitionBlock
    BY <1>0, <1>3, <2>1, <2>3, SeedSelect DEF Prepare
  <2>. QED  BY <2>2, <2>3
<1>4. ASSUME NEW t \in Threads, FinalizeAndAssemble(t) \/ Seal(t) PROVE SeedInv'
  <2>1. work[t].num \in Uint
    BY <1>0 DEF TypeOK, Header
  <2>2. CASE FinalizeAndAssemble(t)
    BY <1>0, <2>1, <2>2, SeedSelect DEF FinalizeAndAssemble, MinerOps
  <2>3. CASE Seal(t)
    BY <1>0, <2>1, <2>3, SeedSelect DEF Seal, MinerOps
  <2>. QED  BY <1>4, <2>2, <2>3
<1>5. ASSUME NEW t \in Threads, SelectLog(t) PROVE SeedInv'
  BY <1>5, SeedSelectLog
<1>6. ASSUME NEW t \in Threads, InsertBlock(t) PROVE SeedInv'
  BY <1>0, <1>6, SeedInsertBlock
<1>7. ASSUME NEW t \in Threads, NEW n \in Uint,
             Author(t, n) \/ VerifyHeader(t, n) \/ VerifyUncles(t, n)
      PROVE  SeedInv'
  <2>1. \A u \in Threads : ThreadSeeded(u)'
    BY <1>7 DEF Author, VerifyHeader, VerifyUncles, DirectOp, SeedInv,
                ThreadSeeded, KnownExtra
  <2>. QED  BY <1>7, <2>1, SeedFrame DEF Author, VerifyHeader, VerifyUncles, DirectOp
<1>8. ASSUME NEW t \in Threads, NEW n \in Uint, Finalize(t, n) \/ SealHash(t, n)
      PROVE  SeedInv'
  <2>1. CASE Finalize(t, n)
    BY <1>0, <2>1, SeedSelect DEF Finalize, HostOps
  <2>2. CASE SealHash(t, n)
    BY <1>0, <2>2, SeedSelect DEF SealHash, HostOps
  <2>. QED  BY <1>8, <2>1, <2>2
<1>9. ASSUME NEW errPoS \in BOOLEAN, NEW errPoA \in BOOLEAN, Close(errPoS, errPoA)
      PROVE  SeedInv'
  <2>1. \A u \in Threads : ThreadSeeded(u)'
    BY <1>9 DEF Close, SeedInv, ThreadSeeded, KnownExtra
  <2>. QED  BY <1>9, <2>1, SeedFrame DEF Close
<1>10. ASSUME NEW n \in Uint, SetHead(n) PROVE SeedInv'
  BY <1>0, <1>10, SeedSetHead
<1>11. CASE UNCHANGED vars
  <2>1. \A u \in Threads : ThreadSeeded(u)'
    BY <1>11 DEF vars, SeedInv, ThreadSeeded, KnownExtra
  <2>. QED  BY <1>11, <2>1, SeedFrame DEF vars
<1>. QED
  BY <1>1, <1>2, <1>3, <1>4, <1>5, <1>6, <1>7, <1>8, <1>9, <1>10, <1>11 DEF Next

(* Whatever the threads interleave, however the head is rewound and      *)
(* whichever wrapped calls fail, prepareTransitionBlock seeds clique's    *)
(* signer set exactly once: a chain that holds the transition block reads *)
(* defaultInitialSigners from it, and from no other block. The hypothesis *)
(* excludes transition block 0, at which the genesis block, produced by   *)
(* no engine, would have to carry them (run hybrid_genesis_signers).      *)
THEOREM SignersSeeded ==
    ASSUME 0 \notin TransitionBlocks
    PROVE  Spec => []SignersSeededAtTransition
<1>1. TypeOK /\ SeedInv => SignersSeededAtTransition
  <2> SUFFICES ASSUME TypeOK, SeedInv PROVE SignersSeededAtTransition
    OBVIOUS
  <2>1. chain \in [0..head -> Header] /\ head \in Nat /\ transitionBlock \in Nat
    BY DEF TypeOK, Uint
  <2>2. head >= transitionBlock =>
           CheckpointSigners(chain[transitionBlock].extra) = InitialSigners
    BY SignersOfCheckpoint DEF SeedInv, TransitionSeeded
  <2>3. ASSUME NEW n \in DOMAIN chain \ {transitionBlock}
        PROVE  CheckpointSigners(chain[n].extra) # InitialSigners
    <3>1. chain[n].extra \in {<<>>, GenesisExtra}
      BY <2>3 DEF SeedInv, ChainSeeded, KnownExtra
    <3>. QED  BY <3>1, SignersOfOthers
  <2>. QED  BY <2>2, <2>3 DEF SignersSeededAtTransition
<1>2. Init => IInv /\ SeedInv
  BY IInvInit, SeedInit
<1>3. IInv /\ SeedInv /\ [Next]_vars => IInv' /\ SeedInv'
  BY IInvStep, SeedStep
<1>. QED  BY <1>1, <1>2, <1>3, PTL DEF Spec, IInv

=============================================================================
