------------------------ MODULE TransitionTestsProofs ------------------------
(***************************************************************************)
(* Proof that the transition tests fail only on a batch that straddles the *)
(* transition block: every script inserts its blocks on top of what its    *)
(* node already holds, so the wrapped engines accept each batch that lies  *)
(* on one side of block 3.                                                 *)
(***************************************************************************)
EXTENDS TransitionTests, TLAPS

(* How the scripts chain their calls. Each call inserts blocks from..to   *)
(* with from <= to. Its first block's parent is genesis, or at most the   *)
(* last block an earlier call of the same node inserted. A node's later   *)
(* calls never end below its earlier ones.                                 *)
Chained(s) ==
    \A c \in 1..Len(s) :
        /\ s[c].node \in Nodes /\ s[c].from \in Nat \ {0} /\ s[c].to \in Nat
        /\ s[c].from <= s[c].to
        /\ \/ s[c].from = 1
           \/ \E j \in 1..(c - 1) : s[j].node = s[c].node /\ s[c].from - 1 <= s[j].to
        /\ \A j \in 1..(c - 1) : s[j].node = s[c].node => s[j].to <= s[c].to

(* The test's state between and inside its InsertChain calls.             *)
Driver ==
    /\ test \in Tests /\ call \in 1..Len(Script) /\ heads \in [Nodes -> Nat]
    /\ importing = TRUE /\ transitionBlock = TestTransitionBlock
    /\ batch = Blocks(Script[call])
    /\ \A n \in Nodes : \A j \in 1..(call - 1) :
          Script[j].node = n => Script[j].to <= heads[n]

(* The call in progress. The caller has read, and the buffer holds, one  *)
(* result per header verified; a header being verified or sent is one of  *)
(* the batch. The first block's parent is in the chain, and once the      *)
(* caller has written a block and waits or is done, the head is that      *)
(* block.                                                                  *)
CallState ==
    /\ head \in Nat /\ recvd \in Seq(BOOLEAN) /\ results \in Seq(BOOLEAN)
    /\ gi \in 1..(Len(batch) + 1)
    /\ path \in {"None", "Empty", "Bulk", "Split"}
    /\ cpc \in {"call", "recv", "insert", "done"}
    /\ gpc \in {"loop", "verify", "send", "done"} /\ gerr \in BOOLEAN
    /\ batch[1].num - 1 <= head
    /\ path # "None" => Len(recvd) + Len(results) = gi - 1
    /\ gpc \in {"verify", "send"} => path = "Split" /\ gi <= Len(batch)
    /\ cpc = "insert" => Len(recvd) \in 1..Len(batch)
    /\ Len(recvd) >= 1 /\ cpc \in {"recv", "done"} /\ recvd[Len(recvd)]
          => head = batch[Len(recvd)].num

(* Which path VerifyHeaders took, and what follows of the results: on the *)
(* bulk path every result is nil.                                          *)
Paths ==
    /\ path = "None" =>
          cpc = "call" /\ recvd = <<>> /\ results = <<>> /\ gi = 1 /\ gpc = "loop"
    /\ cpc = "call" => path = "None"
    /\ path = "Empty" => cpc = "done" /\ recvd = <<>>
    /\ path = "Bulk" => /\ ~Straddles(batch)
                        /\ \A j \in 1..Len(results) : results[j]
                        /\ \A i \in 1..Len(recvd) : recvd[i]
    /\ path = "Split" => Straddles(batch)

(* The invariant behind FailuresOnlyAcrossTransition.                     *)
TInv == Driver /\ CallState /\ Paths

(* The closing of the two channels: abort is closed only by a caller that *)
(* has finished, and results only by the goroutine's deferred close, as  *)
(* it returns on abort or past the last header.                           *)
Drained ==
    /\ quit => cpc = "done"
    /\ resClosed => gpc = "done" /\ (quit \/ (path = "Split" /\ gi > Len(batch)))
-----------------------------------------------------------------------------
(* Each of the four tests chains its calls.                               *)
LEMMA BlockProcessingChained == Chained(BlockProcessing)
BY DEF Chained, BlockProcessing, Nodes

LEMMA MiningChained == Chained(Mining)
BY DEF Chained, Mining, Nodes

LEMMA ForkChoiceChained == Chained(ForkChoice)
BY DEF Chained, ForkChoice, Nodes

(* Node 1 inserts 1..6; node 2's call for block i follows its call for    *)
(* block i - 1.                                                            *)
LEMMA ChainSyncChained == Chained(ChainSync)
<1> DEFINE first == << [node |-> 1, from |-> 1, to |-> 6] >>
           rest == [i \in 1..6 |-> [node |-> 2, from |-> i, to |-> i]]
<1>1. ChainSync = first \o rest
  BY DEF ChainSync
<1>2. /\ Len(ChainSync) = 7
      /\ ChainSync[1] = [node |-> 1, from |-> 1, to |-> 6]
      /\ \A c \in 2..7 : ChainSync[c] = [node |-> 2, from |-> c - 1, to |-> c - 1]
  BY <1>1
<1>3. ASSUME NEW c \in 1..7 PROVE
        /\ ChainSync[c].node \in Nodes /\ ChainSync[c].from \in Nat \ {0}
        /\ ChainSync[c].to \in Nat
        /\ ChainSync[c].from <= ChainSync[c].to
        /\ \/ ChainSync[c].from = 1
           \/ \E j \in 1..(c - 1) : ChainSync[j].node = ChainSync[c].node
                                    /\ ChainSync[c].from - 1 <= ChainSync[j].to
        /\ \A j \in 1..(c - 1) : ChainSync[j].node = ChainSync[c].node
                                    => ChainSync[j].to <= ChainSync[c].to
  <2>1. CASE c \in 1..2
    BY <1>2, <2>1 DEF Nodes
  <2>2. CASE c \in 3..7
    <3>1. ChainSync[c - 1].node = ChainSync[c].node
          /\ ChainSync[c].from - 1 <= ChainSync[c - 1].to
      BY <1>2, <2>2
    <3>2. c - 1 \in 1..(c - 1)
      BY <2>2
    <3>3. \A j \in 1..(c - 1) : ChainSync[j].node = ChainSync[c].node
                                  => ChainSync[j].to <= ChainSync[c].to
      BY <1>2, <2>2
    <3>. QED  BY <1>2, <2>2, <3>1, <3>2, <3>3 DEF Nodes
  <2>. QED  BY <2>1, <2>2
<1>. QED  BY <1>2, <1>3 DEF Chained

LEMMA ScriptChained == test \in Tests => Chained(Script)
BY TestsAssumption, BlockProcessingChained, ChainSyncChained, MiningChained, ForkChoiceChained
   DEF Script, Scripts

(* The blocks of one call: consecutive numbers from..to, each produced by *)
(* the engine of its number.                                               *)
LEMMA BlocksFacts ==
    ASSUME NEW c, c.from \in Nat \ {0}, c.to \in Nat, c.from <= c.to
    PROVE  /\ Blocks(c) \in Seq(VB!Hdr)
           /\ Len(Blocks(c)) = c.to - c.from + 1 /\ Len(Blocks(c)) >= 1
           /\ \A i \in 1..Len(Blocks(c)) :
                 /\ Blocks(c)[i].num = c.from + i - 1
                 /\ Blocks(c)[i].tag = VB!EngineFor(Blocks(c)[i].num)
           /\ Blocks(c)[1].num = c.from
           /\ Blocks(c)[Len(Blocks(c))].num = c.to
<1> DEFINE k == c.to - c.from + 1
<1>1. k \in Nat /\ k >= 1
  OBVIOUS
<1>2. Blocks(c) = [i \in 1..k |-> Generated(c.from + i - 1)]
  BY DEF Blocks
<1>3. \A i \in 1..k : Generated(c.from + i - 1) \in VB!Hdr
  BY DEF Generated, VB!Hdr, VB!EngineFor, VB!Engines, VB!PoS, VB!PoA
<1>4. Blocks(c) \in Seq(VB!Hdr) /\ Len(Blocks(c)) = k
  BY <1>1, <1>2, <1>3
<1>. QED  BY <1>1, <1>2, <1>4 DEF Generated

(* Every test starts with its first call on a fresh chain.                *)
LEMMA TInvInit == Init => TInv
<1> SUFFICES ASSUME Init PROVE TInv
  OBVIOUS
<1>1. Chained(Script) /\ Len(Script) >= 1
  <2>1. Chained(Script)
    BY ScriptChained DEF Init
  <2>2. Len(Script) >= 1
    BY TestsAssumption DEF Init, Script, Scripts, BlockProcessing, ChainSync,
                             Mining, ForkChoice
  <2>. QED  BY <2>1, <2>2
<1>2. /\ Script[1].from = 1 /\ Script[1].to \in Nat /\ Script[1].from <= Script[1].to
      /\ Script[1].node \in Nodes
  <2>1. 1 \in 1..Len(Script)
    BY <1>1
  <2>2. Script[1].from \in Nat \ {0} /\ Script[1].to \in Nat /\ Script[1].from <= Script[1].to
        /\ Script[1].node \in Nodes
        /\ (Script[1].from = 1 \/ \E j \in 1..0 : Script[j].node = Script[1].node)
    BY <1>1, <2>1 DEF Chained
  <2>. QED  BY <2>2
<1>3. /\ Len(Blocks(Script[1])) >= 1 /\ Blocks(Script[1])[1].num = 1
  <2>0. Script[1].from \in Nat \ {0}
    BY <1>2
  <2>1. Len(Blocks(Script[1])) >= 1 /\ Blocks(Script[1])[1].num = Script[1].from
    BY <1>2, <2>0, BlocksFacts
  <2>. QED  BY <1>2, <2>1
<1>3a. Len(batch) >= 1 /\ batch[1].num = 1
  BY <1>3 DEF Init
<1>4. Driver
  BY <1>1 DEF Init, Driver, GenesisHeads, Nodes, TestTransitionBlock
<1>5. CallState
  BY <1>2, <1>3a DEF Init, FreshCall, CallState, GenesisHeads
<1>6. Paths
  BY DEF Init, FreshCall, Paths
<1>. QED  BY <1>4, <1>5, <1>6 DEF TInv

(* What the driver says of the batch of the call in progress.             *)
LEMMA DriverBatch ==
    ASSUME Driver
    PROVE  /\ batch \in Seq(VB!Hdr) /\ Len(batch) >= 1
           /\ batch[1].num \in Nat \ {0}
           /\ \A i \in 1..Len(batch) :
                 /\ batch[i].num = batch[1].num + i - 1
                 /\ batch[i].tag = VB!EngineFor(batch[i].num)
<1>1. Chained(Script) /\ call \in 1..Len(Script)
  BY ScriptChained DEF Driver
<1>2. Script[call].from \in Nat \ {0} /\ Script[call].to \in Nat
      /\ Script[call].from <= Script[call].to
  BY <1>1 DEF Chained
<1>3. /\ Blocks(Script[call]) \in Seq(VB!Hdr)
      /\ Len(Blocks(Script[call])) >= 1
      /\ \A i \in 1..Len(Blocks(Script[call])) :
            /\ Blocks(Script[call])[i].num = Script[call].from + i - 1
            /\ Blocks(Script[call])[i].tag = VB!EngineFor(Blocks(Script[call])[i].num)
      /\ Blocks(Script[call])[1].num = Script[call].from
  BY <1>2, BlocksFacts
<1>. QED  BY <1>2, <1>3 DEF Driver

(* A step of the call in progress leaves the driver as it was.            *)
LEMMA DriverFrame ==
    ASSUME Driver, UNCHANGED <<test, call, heads, importing, transitionBlock, batch>>
    PROVE  Driver'
BY DEF Driver, Script, Blocks, Generated, VB!EngineFor, VB!ShouldUsePoA

(* The VerifyBatch variables a step of the goroutine leaves alone.        *)
Quiet == UNCHANGED <<test, call, heads, importing, transitionBlock, batch, head,
                     recvd, cpc>>

(* The goroutine's steps on the split path touch neither the results the  *)
(* caller holds nor the path.                                              *)
LEMMA TInvSplit ==
    ASSUME TInv, CallStep(VB!SplitLoop \/ VB!SplitVerify \/ VB!SplitSend)
    PROVE  TInv'
<1>1. Quiet /\ UNCHANGED path /\ path = "Split"
  BY DEF CallStep, Quiet, VB!SplitLoop, VB!SplitVerify, VB!SplitSend
<1>2. Driver'
  BY <1>1, DriverFrame DEF TInv, Quiet
<1>3. Len(batch) >= 1 /\ batch \in Seq(VB!Hdr)
  BY DriverBatch DEF TInv
<1>4. CASE VB!SplitLoop
  BY <1>1, <1>2, <1>4 DEF VB!SplitLoop, TInv, CallState, Paths, Quiet, Straddles
<1>5. CASE VB!SplitVerify
  <2>1. gpc = "verify" /\ gpc' = "send" /\ gerr' \in BOOLEAN
        /\ UNCHANGED <<results, gi, path>>
    BY <1>5 DEF VB!SplitVerify, VB!VerifyHeader
  <2>2. gi <= Len(batch)
    BY <2>1 DEF TInv, CallState
  <2>3. CallState'
    BY <1>1, <2>1, <2>2 DEF TInv, CallState, Quiet
  <2>4. Paths'
    BY <1>1, <2>1 DEF TInv, Paths, Quiet, Straddles
  <2>. QED  BY <1>2, <2>3, <2>4 DEF TInv
<1>6. CASE VB!SplitSend
  <2>0. gpc = "send" /\ UNCHANGED <<gerr, path>>
    BY <1>6 DEF VB!SplitSend
  <2>1. gi <= Len(batch) /\ gi \in Nat /\ results \in Seq(BOOLEAN)
        /\ Len(recvd) + Len(results) = gi - 1 /\ recvd \in Seq(BOOLEAN)
    BY <1>1, <1>6 DEF VB!SplitSend, TInv, CallState
  <2>2. CASE VB!SendResult
    <3>1. results' = Append(results, gerr) /\ gi' = gi + 1 /\ gpc' = "loop"
          /\ gerr \in BOOLEAN
      BY <2>2 DEF VB!SendResult, TInv, CallState
    <3>2. results' \in Seq(BOOLEAN) /\ Len(results') = Len(results) + 1
      BY <2>1, <3>1
    <3>3. CallState'
      BY <1>1, <1>3, <2>0, <2>1, <3>1, <3>2 DEF TInv, CallState, Quiet
    <3>4. Paths'
      BY <1>1, <3>2 DEF TInv, Paths, Quiet, Straddles
    <3>. QED  BY <1>2, <3>3, <3>4 DEF TInv
  <2>3. CASE VB!ReturnOnQuit
    BY <1>1, <1>2, <2>0, <2>3 DEF VB!ReturnOnQuit, TInv, CallState, Paths, Quiet, Straddles
  <2>. QED  BY <1>6, <2>2, <2>3 DEF VB!SplitSend
<1>. QED  BY <1>4, <1>5, <1>6 DEF CallStep

(* A batch on one side of the transition is all of the engine its last    *)
(* number selects.                                                         *)
LEMMA OneSide ==
    ASSUME Driver, ~Straddles(batch), NEW i \in 1..Len(batch)
    PROVE  batch[i].tag = VB!BulkEngine
<1>1. /\ Len(batch) >= 1 /\ batch[1].num \in Nat \ {0}
      /\ \A k \in 1..Len(batch) :
            /\ batch[k].num = batch[1].num + k - 1
            /\ batch[k].tag = VB!EngineFor(batch[k].num)
  BY DriverBatch
<1>2. transitionBlock \in Nat /\ Len(batch) \in Nat
  BY DEF Driver, TestTransitionBlock
<1>3. batch # <<>> /\ batch \in Seq(VB!Hdr)
  BY <1>1, <1>2, DriverBatch
<1>4. Len(batch) \in 1..Len(batch) /\ 1 \in 1..Len(batch)
  BY <1>1, <1>2
<1>5. /\ batch[Len(batch)].num = batch[1].num + Len(batch) - 1
      /\ batch[i].num = batch[1].num + i - 1
  BY <1>1, <1>4
<1>6. /\ batch[1].num \in Nat /\ batch[i].num \in Nat /\ batch[Len(batch)].num \in Nat
      /\ batch[1].num <= batch[i].num /\ batch[i].num <= batch[Len(batch)].num
  <2>1. batch[1].num \in Nat /\ i \in Nat /\ i >= 1 /\ i <= Len(batch)
    BY <1>1, <1>2
  <2>. QED  BY <2>1, <1>5
<1>7. batch[Len(batch)].num < transitionBlock \/ batch[1].num >= transitionBlock
  BY <1>2, <1>3, <1>6 DEF Straddles
<1>8. batch[i].tag = VB!EngineFor(batch[i].num)
  BY <1>1
<1>. QED  BY <1>2, <1>6, <1>7, <1>8 DEF VB!BulkEngine, VB!EngineFor, VB!ShouldUsePoA

(* VerifyHeaders takes the bulk path exactly for a batch on one side.     *)
LEMMA TInvVerifyHeaders ==
    ASSUME TInv, CallStep(VB!VerifyHeaders) PROVE TInv'
<1>1. Len(batch) >= 1 /\ batch \in Seq(VB!Hdr)
  BY DriverBatch DEF TInv
<1>2. /\ cpc = "call" /\ cpc' = "recv" /\ batch # <<>>
      /\ path' = IF \/ batch[Len(batch)].num < transitionBlock
                    \/ batch[1].num >= transitionBlock
                 THEN "Bulk" ELSE "Split"
      /\ UNCHANGED <<gpc, results, gi, gerr>>
      /\ UNCHANGED <<test, call, heads, importing, transitionBlock, batch, head, recvd>>
  BY <1>1 DEF CallStep, VB!VerifyHeaders
<1>3. path = "None" /\ recvd = <<>> /\ results = <<>> /\ gi = 1 /\ gpc = "loop"
  BY <1>2 DEF TInv, Paths
<1>4. Driver'
  BY <1>2, DriverFrame DEF TInv
<1>5. CallState'
  BY <1>2, <1>3 DEF TInv, CallState
<1>6. Paths'
  <2>1. Straddles(batch)' <=> Straddles(batch)
    BY <1>2 DEF Straddles
  <2>0. batch[1].num \in Nat /\ batch[Len(batch)].num \in Nat /\ transitionBlock \in Nat
    <3>1. Len(batch) \in 1..Len(batch) /\ 1 \in 1..Len(batch)
      BY <1>1
    <3>2. \A k \in 1..Len(batch) : batch[k].num \in Nat
      <4>1. batch[1].num \in Nat \ {0}
            /\ \A k \in 1..Len(batch) : batch[k].num = batch[1].num + k - 1
        BY DriverBatch DEF TInv
      <4>. QED  BY <4>1
    <3>3. transitionBlock \in Nat
      BY DEF TInv, Driver, TestTransitionBlock
    <3>. QED  BY <3>1, <3>2, <3>3
  <2>2. path' = "Bulk" <=> ~Straddles(batch)
    BY <1>1, <1>2, <2>0 DEF Straddles
  <2>3. path' \in {"Bulk", "Split"} /\ recvd' = <<>> /\ results' = <<>> /\ cpc' = "recv"
    BY <1>2, <1>3
  <2>. QED  BY <2>1, <2>2, <2>3 DEF Paths
<1>. QED  BY <1>4, <1>5, <1>6 DEF TInv

(* The wrapped engine's VerifyHeaders accepts every header of a batch on *)
(* one side whose first parent is in the chain.                           *)
LEMMA TInvBulkStep ==
    ASSUME TInv, CallStep(VB!BulkStep) PROVE TInv'
<1>1. Quiet /\ UNCHANGED <<path, gerr>> /\ path = "Bulk" /\ gpc = "loop"
  BY DEF CallStep, Quiet, VB!BulkStep
<1>2. Driver'
  BY <1>1, DriverFrame DEF TInv, Quiet
<1>3. ~Straddles(batch) /\ Len(recvd) + Len(results) = gi - 1
      /\ results \in Seq(BOOLEAN) /\ gi \in 1..(Len(batch) + 1)
  BY <1>1 DEF TInv, Paths, CallState
<1>4. CASE gi <= Len(batch) /\ results' = Append(results, VB!EngineVerify(VB!BulkEngine, gi))
           /\ gi' = gi + 1 /\ UNCHANGED gpc
  <2>1. batch[gi].tag = VB!BulkEngine
    BY <1>3, <1>4, OneSide DEF TInv
  <2>2. gi > 1 \/ batch[gi].num - 1 <= head
    BY <1>3, <1>4 DEF TInv, CallState
  <2>3. VB!EngineVerify(VB!BulkEngine, gi)
    BY <2>1, <2>2 DEF VB!EngineVerify
  <2>4. results' \in Seq(BOOLEAN) /\ Len(results') = Len(results) + 1
        /\ \A j \in 1..Len(results') : results'[j]
    BY <1>1, <1>3, <1>4, <2>3 DEF TInv, Paths
  <2>5. CallState'
    BY <1>1, <1>3, <1>4, <2>4 DEF TInv, CallState, Quiet
  <2>6. Paths'
    BY <1>1, <2>4 DEF TInv, Paths, Quiet, Straddles
  <2>. QED  BY <1>2, <2>5, <2>6 DEF TInv
<1>5. CASE gpc' = "done" /\ UNCHANGED <<results, gi>>
  BY <1>1, <1>2, <1>5 DEF TInv, CallState, Paths, Quiet, Straddles
<1>. QED  BY <1>4, <1>5 DEF CallStep, VB!BulkStep

(* The caller reads the next result: on the bulk path a nil one; it goes  *)
(* on to write the block, or stops at an error.                            *)
LEMMA TInvReceive ==
    ASSUME TInv, Drained, CallStep(VB!Receive) PROVE TInv'
<1> DEFINE r == Head(results)
<1>0. results # <<>>
  <2>1. cpc = "recv" /\ Len(recvd) < Len(batch) /\ (results # <<>> \/ resClosed)
    BY DEF CallStep, VB!Receive
  <2>2. CASE resClosed
    <3>1. path = "Split" /\ gi > Len(batch)
      BY <2>1, <2>2 DEF Drained
    <3>2. Len(recvd) + Len(results) = gi - 1 /\ gi \in 1..(Len(batch) + 1)
          /\ results \in Seq(BOOLEAN) /\ recvd \in Seq(BOOLEAN)
      BY <3>1 DEF TInv, CallState
    <3>. QED  BY <2>1, <3>1, <3>2
  <2>. QED  BY <2>1, <2>2
<1>1. /\ cpc = "recv" /\ results # <<>>
      /\ recvd' = Append(recvd, r) /\ results' = Tail(results)
      /\ UNCHANGED <<test, call, heads, importing, transitionBlock, batch, head,
                     path, gi, gpc, gerr>>
      /\ IF ~r THEN cpc' = "done"
         ELSE IF importing THEN cpc' = "insert"
         ELSE IF Len(recvd') = Len(batch) THEN cpc' = "done" ELSE cpc' = cpc
  BY <1>0 DEF CallStep, VB!Receive, VB!ResultRead
<1>2. /\ importing = TRUE /\ path \in {"Bulk", "Split"}
      /\ results \in Seq(BOOLEAN) /\ recvd \in Seq(BOOLEAN)
      /\ Len(recvd) + Len(results) = gi - 1 /\ gi \in 1..(Len(batch) + 1)
  BY <1>1 DEF TInv, Driver, CallState, Paths
<1>3. /\ Len(results) >= 1 /\ r = results[1] /\ r \in BOOLEAN
      /\ recvd' \in Seq(BOOLEAN) /\ Len(recvd') = Len(recvd) + 1
      /\ recvd'[Len(recvd')] = r /\ \A i \in 1..Len(recvd) : recvd'[i] = recvd[i]
      /\ results' \in Seq(BOOLEAN) /\ Len(results') = Len(results) - 1
      /\ \A j \in 1..Len(results') : results'[j] = results[j + 1]
  <2>0. results # <<>> /\ recvd' = Append(recvd, r) /\ results' = Tail(results)
    BY <1>1
  <2>1. Len(results) >= 1 /\ r = results[1] /\ r \in BOOLEAN
    BY <2>0, <1>2
  <2>2. /\ recvd' \in Seq(BOOLEAN) /\ Len(recvd') = Len(recvd) + 1
        /\ recvd'[Len(recvd')] = r /\ \A i \in 1..Len(recvd) : recvd'[i] = recvd[i]
    BY <2>0, <1>2, <2>1
  <2>3. /\ results' \in Seq(BOOLEAN) /\ Len(results') = Len(results) - 1
        /\ \A j \in 1..Len(results') : results'[j] = results[j + 1]
    BY <2>0, <1>2, <2>1
  <2>. QED  BY <2>1, <2>2, <2>3
<1>4. cpc' = IF r THEN "insert" ELSE "done"
  BY <1>1, <1>2, <1>3
<1>5. Driver'
  BY <1>1, DriverFrame DEF TInv
<1>6. CallState'
  <2>1. Len(recvd') \in 1..Len(batch) /\ Len(recvd') + Len(results') = gi - 1
    BY <1>2, <1>3
  <2>. QED  BY <1>1, <1>3, <1>4, <2>1 DEF TInv, CallState
<1>7. Paths'
  <2>1. CASE path = "Bulk"
    <3>1. \A j \in 1..Len(results) : results[j]
      BY <2>1 DEF TInv, Paths
    <3>2. r = TRUE
      <4>1. 1 \in 1..Len(results) /\ r = results[1]
        BY <1>3
      <4>2. results[1] = TRUE
        BY <3>1, <4>1, <1>2
      <4>. QED  BY <4>1, <4>2
    <3>3. \A j \in 1..Len(results') : results'[j]
      BY <1>3, <3>1
    <3>4. \A i \in 1..Len(recvd) : recvd[i]
      BY <2>1 DEF TInv, Paths
    <3>5. \A i \in 1..Len(recvd') : recvd'[i] = TRUE
      <4>1. \A i \in 1..Len(recvd) : recvd'[i] = TRUE
        BY <1>3, <3>4, <1>2
      <4>2. recvd'[Len(recvd')] = TRUE
        BY <1>3, <3>2
      <4>. QED  BY <4>1, <4>2, <1>2, <1>3
    <3>. QED  BY <1>1, <2>1, <3>3, <3>5 DEF TInv, Paths, Straddles
  <2>2. CASE path = "Split"
    BY <1>1, <1>4, <2>2 DEF TInv, Paths, Straddles
  <2>. QED  BY <1>2, <2>1, <2>2
<1>. QED  BY <1>5, <1>6, <1>7 DEF TInv

(* Block import writes the verified block, which the head then is.        *)
LEMMA TInvInsert ==
    ASSUME TInv, CallStep(VB!Insert) PROVE TInv'
<1>1. /\ cpc = "insert" /\ head' = batch[Len(recvd)].num
      /\ cpc' \in {"recv", "done"}
      /\ UNCHANGED <<test, call, heads, importing, transitionBlock, batch,
                     path, results, gi, gpc, gerr, recvd>>
  BY DEF CallStep, VB!Insert
<1>2. Len(recvd) \in 1..Len(batch)
  BY <1>1 DEF TInv, CallState
<1>3. /\ batch[1].num \in Nat \ {0}
      /\ batch[Len(recvd)].num = batch[1].num + Len(recvd) - 1
  BY <1>2, DriverBatch DEF TInv
<1>4. head' \in Nat /\ batch[1].num - 1 <= head'
  BY <1>1, <1>2, <1>3
<1>5. Driver'
  BY <1>1, DriverFrame DEF TInv
<1>6. CallState'
  BY <1>1, <1>2, <1>4 DEF TInv, CallState
<1>7. Paths'
  BY <1>1 DEF TInv, Paths, Straddles
<1>. QED  BY <1>5, <1>6, <1>7 DEF TInv

(* The test goes on to its next call only after the last block of this   *)
(* one was written: the node's head is then this call's last block, at    *)
(* least as high as any the node reached before, and the next call's     *)
(* first parent is in its node's chain.                                    *)
LEMMA TInvNextCall ==
    ASSUME TInv, NextCall PROVE TInv'
<1> DEFINE nd == Script[call].node
           nx == Script[call + 1]
<1>1. /\ Chained(Script) /\ call \in 1..Len(Script) /\ call + 1 \in 1..Len(Script)
      /\ heads \in [Nodes -> Nat]
  <2>1. Chained(Script) /\ call \in 1..Len(Script) /\ heads \in [Nodes -> Nat]
    BY ScriptChained DEF TInv, Driver
  <2>2. call < Len(Script)
    BY DEF NextCall
  <2>. QED  BY <2>1, <2>2
<1>2. /\ nd \in Nodes /\ Script[call].to \in Nat
      /\ \A j \in 1..(call - 1) : Script[j].node = nd => Script[j].to <= Script[call].to
  BY <1>1 DEF Chained
<1>3. /\ nx.node \in Nodes /\ nx.from \in Nat \ {0} /\ nx.to \in Nat /\ nx.from <= nx.to
      /\ \/ nx.from = 1
         \/ \E j \in 1..call : Script[j].node = nx.node /\ nx.from - 1 <= Script[j].to
  <2>1. (call + 1) - 1 = call
    BY <1>1
  <2>. QED  BY <1>1, <2>1 DEF Chained
(* This call wrote its whole batch: the head is its last block.          *)
<1>4. head = Script[call].to
  <2>1. /\ Len(batch) >= 1 /\ batch \in Seq(VB!Hdr)
    BY DriverBatch DEF TInv
  <2>2. cpc = "done" /\ \A i \in 1..Len(batch) : i <= Len(recvd) /\ recvd[i]
    BY DEF NextCall
  <2>3. path # "None" /\ Len(recvd) + Len(results) = gi - 1
        /\ gi \in 1..(Len(batch) + 1) /\ results \in Seq(BOOLEAN) /\ recvd \in Seq(BOOLEAN)
    BY <2>2 DEF TInv, Paths, CallState
  <2>4. Len(recvd) = Len(batch)
    BY <2>1, <2>2, <2>3
  <2>5. recvd[Len(recvd)] = TRUE
    BY <2>1, <2>2, <2>4
  <2>6. head = batch[Len(batch)].num
    BY <2>1, <2>2, <2>4, <2>5 DEF TInv, CallState
  <2>7. batch[Len(batch)].num = Script[call].to
    <3>1. Script[call].from \in Nat \ {0} /\ Script[call].to \in Nat
          /\ Script[call].from <= Script[call].to
      BY <1>1 DEF Chained
    <3>2. Blocks(Script[call])[Len(Blocks(Script[call]))].num = Script[call].to
      BY <3>1, BlocksFacts
    <3>. QED  BY <3>2 DEF TInv, Driver
  <2>. QED  BY <2>6, <2>7
<1>5. /\ call' = call + 1 /\ heads' = [heads EXCEPT ![nd] = head]
      /\ head' = heads'[nx.node] /\ batch' = Blocks(nx)
      /\ UNCHANGED <<transitionBlock, importing, test>>
  BY DEF NextCall, Script
<1>6. heads' \in [Nodes -> Nat] /\ heads'[nd] = Script[call].to
      /\ \A n \in Nodes \ {nd} : heads'[n] = heads[n]
  BY <1>1, <1>2, <1>4, <1>5
(* Every earlier call of a node ended at or below its head.              *)
<1>7. \A n \in Nodes : \A j \in 1..call : Script[j].node = n => Script[j].to <= heads'[n]
  <2> SUFFICES ASSUME NEW n \in Nodes, NEW j \in 1..call, Script[j].node = n
               PROVE  Script[j].to <= heads'[n]
    OBVIOUS
  <2>1. CASE j = call
    BY <1>6, <2>1
  <2>2. CASE j # call /\ n = nd
    <3>1. j \in 1..(call - 1)
      BY <1>1, <2>2
    <3>. QED  BY <1>2, <1>6, <2>2, <3>1
  <2>3. CASE j # call /\ n # nd
    <3>1. j \in 1..(call - 1)
      BY <1>1, <2>3
    <3>2. Script[j].to <= heads[n]
      BY <3>1 DEF TInv, Driver
    <3>. QED  BY <1>6, <2>3, <3>2
  <2>. QED  BY <2>1, <2>2, <2>3
<1>8. Driver'
  <2>1. Script' = Script /\ test' \in Tests /\ importing' = TRUE
        /\ transitionBlock' = TestTransitionBlock
    BY <1>5 DEF Script, TInv, Driver
  <2>2. call' \in 1..Len(Script') /\ call' - 1 = call
    BY <1>1, <1>5, <2>1
  <2>3. batch' = (Blocks(Script[call]))'
    BY <1>5, <2>1 DEF Blocks, Generated, VB!EngineFor, VB!ShouldUsePoA
  <2>4. \A n \in Nodes : \A j \in 1..(call' - 1) :
            Script'[j].node = n => Script'[j].to <= heads'[n]
    BY <1>7, <2>1, <2>2
  <2>. QED  BY <1>6, <2>1, <2>2, <2>3, <2>4 DEF Driver
<1>9. batch'[1].num = nx.from /\ Len(batch') >= 1
  BY <1>3, <1>5, BlocksFacts
<1>10. head' \in Nat /\ nx.from - 1 <= head'
  <2>1. head' = heads'[nx.node] /\ heads'[nx.node] \in Nat
    BY <1>3, <1>5, <1>6
  <2>2. CASE nx.from = 1
    BY <2>1, <2>2
  <2>3. CASE \E j \in 1..call : Script[j].node = nx.node /\ nx.from - 1 <= Script[j].to
    <3>1. PICK j \in 1..call : Script[j].node = nx.node /\ nx.from - 1 <= Script[j].to
      BY <2>3
    <3>2. Script[j].to <= heads'[nx.node]
      BY <1>3, <1>7, <3>1
    <3>3. Script[j].to \in Nat
      BY <1>1 DEF Chained
    <3>. QED  BY <1>3, <2>1, <3>1, <3>2, <3>3
  <2>. QED  BY <1>3, <2>2, <2>3
<1>11. CallState'
  BY <1>9, <1>10 DEF NextCall, CallState
<1>12. Paths'
  BY DEF NextCall, Paths
<1>. QED  BY <1>8, <1>11, <1>12 DEF TInv

(* Every step of a test keeps the invariant.                              *)
LEMMA DrainedInit == Init => Drained
  BY DEF Init, FreshCall, Drained

(* Only the caller closes abort, as it finishes; only the goroutine's     *)
(* deferred close, or an empty batch, closes results; a goroutine that    *)
(* has returned never moves again; and the next call opens both anew.    *)
LEMMA DrainedStep == TInv /\ Drained /\ [Next]_vars => Drained'
<1> SUFFICES ASSUME TInv, Drained, [Next]_vars PROVE Drained'
  OBVIOUS
<1>1. CASE CallStep(VB!VerifyHeaders)
  <2>1. cpc = "call" /\ ~quit /\ ~resClosed
    BY <1>1 DEF CallStep, VB!VerifyHeaders, Drained, TInv, Paths, CallState
  <2>. QED  BY <1>1, <2>1 DEF CallStep, VB!VerifyHeaders, Drained
<1>2. CASE CallStep(VB!SplitLoop)
  <2>1. path = "Split" /\ gpc = "loop" /\ ~resClosed
        /\ UNCHANGED <<quit, cpc, gi, batch, path>>
    BY <1>2 DEF CallStep, VB!SplitLoop, Drained
  <2>2. CASE gi > Len(batch) \/ quit
    <3>1. gpc' = "done" /\ resClosed' = TRUE
      BY <1>2, <2>2 DEF CallStep, VB!SplitLoop
    <3>. QED  BY <2>1, <2>2, <3>1 DEF Drained
  <2>3. CASE ~(gi > Len(batch) \/ quit)
    <3>1. gpc' = "verify" /\ resClosed' = resClosed
      BY <1>2, <2>3 DEF CallStep, VB!SplitLoop
    <3>. QED  BY <2>1, <3>1 DEF Drained
  <2>. QED  BY <2>2, <2>3
<1>3. CASE CallStep(VB!SplitVerify)
  BY <1>3 DEF CallStep, VB!SplitVerify, Drained
<1>4. CASE CallStep(VB!SplitSend)
  <2>1. gpc = "send" /\ ~resClosed /\ UNCHANGED <<quit, cpc, batch, path>>
    BY <1>4 DEF CallStep, VB!SplitSend, Drained
  <2>2. CASE VB!SendResult
    <3>1. gpc' = "loop" /\ resClosed' = resClosed
      BY <2>2 DEF VB!SendResult
    <3>. QED  BY <2>1, <3>1 DEF Drained
  <2>3. CASE quit /\ VB!ReturnOnQuit
    <3>1. gpc' = "done" /\ quit'
      BY <2>1, <2>3 DEF VB!ReturnOnQuit
    <3>. QED  BY <2>1, <2>3, <3>1 DEF Drained
  <2>. QED  BY <1>4, <2>2, <2>3 DEF CallStep, VB!SplitSend
<1>5. CASE CallStep(VB!BulkStep)
  BY <1>5 DEF CallStep, VB!BulkStep, Drained
<1>6. CASE CallStep(VB!Receive)
  BY <1>6 DEF CallStep, VB!Receive, Drained
<1>7. CASE CallStep(VB!Insert)
  BY <1>7 DEF CallStep, VB!Insert, Drained
<1>8. CASE NextCall
  BY <1>8 DEF NextCall, Drained
<1>9. CASE UNCHANGED vars
  BY <1>9 DEF vars, callVars, Drained
<1>. QED
  BY <1>1, <1>2, <1>3, <1>4, <1>5, <1>6, <1>7, <1>8, <1>9 DEF Next, CallStep, VB!Next

LEMMA TInvStep == TInv /\ Drained /\ [Next]_vars => TInv'
<1> SUFFICES ASSUME TInv, Drained, [Next]_vars PROVE TInv'
  OBVIOUS
<1>1. CASE CallStep(VB!Next)
  <2> DEFINE Keep == UNCHANGED <<test, call, heads>>
  <2>1. CASE VB!VerifyHeaders /\ Keep
    BY <2>1, TInvVerifyHeaders DEF CallStep
  <2>2. CASE (VB!SplitLoop \/ VB!SplitVerify \/ VB!SplitSend) /\ Keep
    BY <2>2, TInvSplit DEF CallStep
  <2>3. CASE VB!BulkStep /\ Keep
    BY <2>3, TInvBulkStep DEF CallStep
  <2>4. CASE VB!Receive /\ Keep
    BY <2>4, TInvReceive DEF CallStep
  <2>5. CASE VB!Insert /\ Keep
    BY <2>5, TInvInsert DEF CallStep
  <2>. QED  BY <1>1, <2>1, <2>2, <2>3, <2>4, <2>5 DEF CallStep, VB!Next
<1>2. CASE NextCall
  BY <1>2, TInvNextCall
<1>3. CASE UNCHANGED vars
  BY <1>3 DEF vars, callVars, TInv, Driver, CallState, Paths, Straddles, Script,
             Blocks, Generated, VB!EngineFor, VB!ShouldUsePoA
<1>. QED  BY <1>1, <1>2, <1>3 DEF Next

(* Whatever the order in which the verifying goroutine and the importing  *)
(* caller interleave, an InsertChain call of the four transition tests    *)
(* fails only on a batch that straddles block 3: every batch on one side  *)
(* goes whole to the wrapped engine, which accepts it, because each call  *)
(* inserts its blocks on top of what its node already holds.               *)
THEOREM FailuresOnlyAcross == Spec => []FailuresOnlyAcrossTransition
<1>1. TInv => FailuresOnlyAcrossTransition
  <2> SUFFICES ASSUME TInv, NEW i \in 1..Len(recvd), ~recvd[i] PROVE Straddles(batch)
    BY DEF FailuresOnlyAcrossTransition
  <2>1. path \in {"None", "Empty", "Bulk", "Split"} /\ Len(recvd) >= 1
    BY DEF TInv, CallState
  <2>2. path \notin {"None", "Empty"}
    BY <2>1 DEF TInv, Paths
  <2>3. path # "Bulk"
    BY DEF TInv, Paths
  <2>. QED  BY <2>1, <2>2, <2>3 DEF TInv, Paths
<1>2. QED
  BY <1>1, TInvInit, TInvStep, DrainedInit, DrainedStep, PTL DEF Spec
=============================================================================
